---- MODULE Spec2Model ----
(***************************************************************************)
(* A model of the gudgeon resolution engine: the persistent rule store,    *)
(* the response cache, the resolver graph and the request pipeline.        *)
(*                                                                         *)
(* Each component has its own specification over the shared variables:     *)
(*   SpecRule     the SQL rule store   (Init, Load, Finalize, FindMatch)   *)
(*   SpecCache    the response cache   (Store, Query, clock, expiry)       *)
(*   SpecResolve  the resolver graph   (AnswerMultiResolvers and sources)  *)
(*   SpecEngine   the request pipeline (Handle / performRequest)           *)
(***************************************************************************)
EXTENDS Integers, Sequences, FiniteSets, TLC

\* ------------------------------------------------------------------------
\* Bounds of the model
\* ------------------------------------------------------------------------

\* the longest domain name, in labels
MaxLabels == 2

\* the number of Load calls of one store build
MaxLoads == 2

\* the most records in the answer section of an upstream response
MaxRecords == 2

\* the clock runs from 0 to MaxTime ticks, TicksPerSecond ticks to the second
MaxTime == 3
TicksPerSecond == 2

\* the most sources of one resolver
MaxSources == 2

\* the deepest chain of resolver calls the stack holds
MaxStack == 4

\* the capacity of the recorder's queue
QueueCap == 1

\* the last second of the clock of the DNS source
MaxClock == 16
MaxMetricsTime == 4
MaxQueries == 2
RetainTicks == 2
MaxRows == 2
MaxConsumers == 2
MaxSlots == 2

\* ------------------------------------------------------------------------
\* Domain names
\* ------------------------------------------------------------------------
\* A name is the sequence of its dot-separated labels: "a.b" is <<"a","b">>.
\* A fully qualified name ends with a dot, that is with an empty last label:
\* "a.b." is <<"a","b","">>.

Labels == {"a", "b"}

\* the names without a trailing dot, of 1..MaxLabels labels
Domains == UNION {[1..n -> Labels] : n \in 1..MaxLabels}

\* the rule texts loaded into the store: the names under the top level "a"
RuleTexts == {d \in Domains : d[Len(d)] = "a"}

\* util.DomainList: the domain and each of its parent domains, longest first
DomainList(domain) ==
  [i \in 1..Len(domain) |-> SubSeq(domain, i, Len(domain))]

SeqRange(s) == {s[i] : i \in 1..Len(s)}

\* ------------------------------------------------------------------------
\* Lists
\* ------------------------------------------------------------------------
\* A list is known by its short name; its type is the Type string of its
\* configuration.

ListNames == {"l1", "l2"}

TypeStrings == {"allow", "block"}

NoList == "<nil>"

\* rule.ParseType: "allow" is an allow list, every other string a block list
ParseType(t) == IF t = "allow" THEN "ALLOW" ELSE "BLOCK"

VARIABLES
  listType,      \* config: the Type string of each list
  phase,         \* rule store: "new", "loading" (after Init) or "final"
  lists,         \* rule store: table lists (the short names inserted by Init)
  rules_initial, \* rule store: table rules_initial, rows <<list, rule>>
  rules,         \* rule store: table rules, rows <<list, rule>>
  txOpen,        \* rule store: store.tx /= nil
  txRows,        \* rule store: rows written in store.tx, not yet committed
  loaded,        \* history: every <<list, rule>> passed to Load
  fm             \* the last FindMatch call: its arguments, whether the store
                 \* was finalized, and what it returned

ruleVars == <<listType, phase, lists, rules_initial, rules, txOpen, txRows, loaded, fm>>

VARIABLES
  now,             \* the clock, in ticks
  upstream,        \* the response the upstream gives to the question
  backer,          \* cache: the backing map, a set of items, one per key
  partitionIdx,    \* cache: the last partition id given out
  partitionIdxMap, \* cache: partition string -> partition id (0: not seen)
  cop              \* the last cache call: its arguments and what it returned

cacheVars == <<now, upstream, backer, partitionIdx, partitionIdxMap, cop>>

VARIABLES
  resolvers,   \* config: resolver name -> its sources, in order
  hostKnows,   \* whether the hostfile has an entry for the question
  cached,      \* the resolver names under which the cache holds a response
  rpc,         \* "idle", "running", "done", or "overflow" (the stack ran out)
  names,       \* the resolver names AnswerMultiResolvers was called with
  mi,          \* the index in names of the resolver being tried
  stack,       \* the resolvers running, outermost first: [name, idx of source]
  Visited,     \* context.Visited
  ret,         \* the response on its way back to the caller, or NoRet
  outcome,     \* the response AnswerMultiResolvers returned
  entered,     \* history: the resolvers run during this request, in order
  answered,    \* history: a hostfile or remote source has given an answer
  hit,         \* history: the cache was hit during this request
  guarded      \* history: a reference was refused for being in Visited

resVars == <<resolvers, hostKnows, cached, rpc, names, mi, stack, Visited, ret,
             outcome, entered, answered, hit, guarded>>

VARIABLES
  blockFlag,   \* config: consumer name -> its block flag
  queueLen,    \* the number of entries in the recorder's queue
  engineUp,    \* FALSE once the process has died
  eop          \* history: the last call of Handle and what it returned

engineVars == <<blockFlag, queueLen, engineUp, eop>>

VARIABLES
  clock,        \* time.Now(), in seconds
  backoffTime,  \* dnsSource.backoffTime, NoTime when nil
  lastError,    \* history: the time of the last transport error, or NoTime
  answers       \* the calls of dnsSource.Answer, one per goroutine

dnsVars == <<clock, backoffTime, lastError, answers>>

VARIABLES
  dbEnabled,   \* config: metrics.db /= nil
  infoChan,    \* the number of entries buffered in metrics.metricsInfoChan
  infoClosed,  \* metricsInfoChan is closed
  senders,     \* the callers of RecordQueryMetrics, one per goroutine
  wpc,         \* the worker: "new", "loop", "acking", "exited"
  spc,         \* Stop: "none", then the statement it is at, "done"
  metricsDbOpen, \* the database handle is open
  lastWork,    \* history: the last thing the worker did
  acked,       \* history: the worker has sent its acknowledgement
  lateWork,    \* history: the worker did something after it acknowledged
  owed         \* history: entries queued before Stop and not yet recorded

metricsVars == <<dbEnabled, infoChan, infoClosed, senders, wpc, spc, metricsDbOpen,
                 lastWork, acked, lateWork, owed>>

VARIABLES
  hasWeb,       \* config.Web.Enabled: gudgeon.web /= nil
  hasRecorder,  \* engine.recorder /= nil
  hasDb,        \* engine.db /= nil
  gpc,          \* Gudgeon.Shutdown: "running", then the statement it is at, "done"
  providerUp,   \* the DNS endpoints are listening
  webUp,        \* the web service is serving
  engineDbOpen, \* the engine's database handle is open
  stopLog       \* history: what has been stopped, in order

shutVars == <<hasWeb, hasRecorder, hasDb, gpc, providerUp, webUp, engineDbOpen, stopLog>>

VARIABLES
  metricsMap,    \* metrics.metricsMap: key -> count
  metricsRows,   \* the rows of the metrics table
  mnow,          \* time.Now(), in ticks
  lastInsert,    \* metrics.lastInsert
  mrun,          \* "running" or "stopped"
  atStop,        \* history: the counters as Stop left them
  recorded,      \* history: the queries recorded since the process began
  restarted      \* history: New has run again and nothing was recorded since

counterVars == <<metricsMap, metricsRows, mnow, lastInsert, mrun, atStop, recorded, restarted>>

VARIABLES
  qlogDb,        \* qlog.db /= nil
  qTable,        \* the rows the select returns, in result order
  qFaults,       \* which statements of this call fail
  spos,          \* QueryStream: "idle", then where the call is, "returned"
  sidx,          \* the number of rows scanned
  sendingCount,  \* the local of QueryStream
  streamLog,     \* history: what was sent on the two channels, in order
  countClosed,   \* countChan is closed
  rowsClosed     \* infoChan is closed

streamVars == <<qlogDb, qTable, qFaults, spos, sidx, sendingCount, streamLog,
                countClosed, rowsClosed>>

VARIABLES
  configured,  \* engine.consumers of the configuration under test
  lookedUp,    \* the client address of the last getConsumerForIp call
  selected     \* the consumer that call returned

consumerVars == <<configured, lookedUp, selected>>

VARIABLES
  emsg   \* the message TestIsEmpty builds and hands to IsEmptyResponse

emptyVars == <<emsg>>

VARIABLES
  created,  \* the text of the rule Create made
  sample,   \* the domain of the last IsMatch call, <<>> before the first
  isMatch   \* what that call returned

textVars == <<created, sample, isMatch>>

VARIABLES
  lockedMap,  \* metrics.metricsMap: key -> the counter it points to
  heap,       \* the count of every Metric made, by the order of making
  rwMutex,    \* metrics.metricsMutex: the readers and the writer
  getters,    \* the Get call of each goroutine: pc, name, the counter got
  gave,       \* history: the counters Get has returned for each name
  incsDone    \* history: the increments made for each name

lockVars == <<lockedMap, heap, rwMutex, getters, gave, incsDone>>

VARIABLES
  rolledBack  \* history: the rows of the load transactions rolled back

failVars == <<rolledBack>>

VARIABLES
  keyCalls,    \* the Store or Query call of each goroutine: where it is in
               \* gocache.key, its partition, what it returned
  storedUnder  \* history: the partition each key of the backing map was
               \* last stored under

keyVars == <<keyCalls, storedUnder>>

VARIABLES
  dnsProtocol,  \* dnsSource.protocol, "" when the source names none
  reqCon,       \* the request context handed to Answer: NilCon or its Protocol
  coType,       \* the protocol Answer hands to query, NotChosen before
  dialed,       \* what the dial of query gave: "none", "ok" or "error"
  dialLog       \* history: the protocols query was called with

protoVars == <<dnsProtocol, reqCon, coType, dialed, dialLog>>

VARIABLES
  tiles,     \* history: the windows of the rows insert wrote, in order
  failedAt,  \* history: the times at which an insert failed
  entries    \* what the last metrics.Query returned, not asked before it

windowVars == <<tiles, failedAt, entries>>

VARIABLES
  tag,        \* the call of resolver.Answer: its sources, the one asked, the response
  SourceUsed  \* context.SourceUsed

tagVars == <<tag, SourceUsed>>

lastVars == <<keyVars, protoVars, windowVars, tagVars>>

laterVars == <<shutVars, counterVars, streamVars, consumerVars, emptyVars, textVars,
               lockVars, failVars, lastVars>>

vars == <<ruleVars, cacheVars, resVars, engineVars, dnsVars, metricsVars, laterVars>>

NoCall == [op |-> "none"]

\* the rule store after construction: &sqlStore{}
NewStore ==
  /\ phase = "new"
  /\ lists = {}
  /\ rules_initial = {}
  /\ rules = {}
  /\ txOpen = FALSE
  /\ txRows = {}
  /\ loaded = {}
  /\ fm = NoCall

ResolverNames == {"A", "B"}

NilResponse == "nil"

NoRet == "none"

\* no request is being resolved
NoRequest ==
  /\ rpc = "idle"
  /\ names = <<>>
  /\ mi = 0
  /\ stack = <<>>
  /\ Visited = <<>>
  /\ ret = NoRet
  /\ outcome = NilResponse
  /\ entered = <<>>
  /\ answered = FALSE
  /\ hit = FALSE
  /\ guarded = FALSE

ConsumerNames == {"kids", "lan", "default"}

Goroutines == {"g1", "g2"}

\* New, with the worker not yet started
NewMetrics ==
  /\ infoChan = 0
  /\ infoClosed = FALSE
  /\ senders = [g \in Goroutines |-> "idle"]
  /\ wpc = "new"
  /\ spc = "none"
  /\ metricsDbOpen = dbEnabled
  /\ lastWork = "none"
  /\ acked = FALSE
  /\ lateWork = FALSE
  /\ owed = 0

IdleMetrics ==
  /\ dbEnabled = TRUE
  /\ NewMetrics

\* a running process: nothing has been shut down
IdleShutdown ==
  /\ hasWeb = TRUE
  /\ hasRecorder = TRUE
  /\ hasDb = TRUE
  /\ gpc = "running"
  /\ providerUp = TRUE
  /\ webUp = TRUE
  /\ engineDbOpen = TRUE
  /\ stopLog = <<>>

\* make(map[string]*Metric)
EmptyMap == [k \in {} |-> 0]

\* a metrics instance on an empty database
IdleCounters ==
  /\ metricsMap = EmptyMap
  /\ metricsRows = {}
  /\ mnow = 0
  /\ lastInsert = 0
  /\ mrun = "running"
  /\ atStop = EmptyMap
  /\ recorded = 0
  /\ restarted = FALSE

\* no QueryStream call is running
IdleStream ==
  /\ qlogDb = TRUE
  /\ qTable = <<>>
  /\ qFaults = {}
  /\ spos = "idle"
  /\ sidx = 0
  /\ sendingCount = TRUE
  /\ streamLog = <<>>
  /\ countClosed = FALSE
  /\ rowsClosed = FALSE

\* no consumer has been looked up
IdleConsumers ==
  /\ configured = <<>>
  /\ lookedUp = [len |-> 0, n |-> 0]
  /\ selected = "none"

\* &dns.Msg{}: no record in any section
IdleEmpty ==
  /\ emsg = [answer |-> <<>>, ns |-> <<>>, extra |-> <<>>]

\* no rule under test
IdleText ==
  /\ created = <<>>
  /\ sample = <<>>
  /\ isMatch = FALSE

LockedNames == {"total", "cached"}

NoMetric == 0

\* a metrics map with no counter and no call of Get
IdleLock ==
  /\ lockedMap = [name \in LockedNames |-> NoMetric]
  /\ heap = <<>>
  /\ rwMutex = [readers |-> 0, writer |-> FALSE]
  /\ getters = [g \in Goroutines |-> [pc |-> "idle", name |-> "total", got |-> NoMetric]]
  /\ gave = [name \in LockedNames |-> {}]
  /\ incsDone = [name \in LockedNames |-> 0]

\* no load has failed
IdleFail ==
  /\ rolledBack = {}

\* no goroutine is in the cache
IdleKey ==
  /\ keyCalls = [g \in Goroutines |-> NoCall]
  /\ storedUnder = {}

\* a source without a protocol that has not been asked
IdleProto ==
  /\ dnsProtocol = ""
  /\ reqCon = [nil |-> TRUE]
  /\ coType = "<none>"
  /\ dialed = "none"
  /\ dialLog = {}

\* no insert was tried and no Query was made
IdleWindow ==
  /\ tiles = <<>>
  /\ failedAt = {}
  /\ entries = [asked |-> FALSE, rows |-> <<>>]

\* no resolver is answering
IdleTag ==
  /\ tag = [pc |-> "none"]
  /\ SourceUsed = ""

IdleLast ==
  /\ IdleKey
  /\ IdleProto
  /\ IdleWindow
  /\ IdleTag

IdleLater ==
  /\ IdleLast
  /\ IdleShutdown
  /\ IdleCounters
  /\ IdleStream
  /\ IdleConsumers
  /\ IdleEmpty
  /\ IdleText
  /\ IdleLock
  /\ IdleFail

NoTime == -1

\* no call of Answer is running
NoAnswer ==
  [pc |-> "idle", rd |-> FALSE, asleep |-> FALSE, contacted |-> FALSE, ret |-> "none"]

\* newDNSSource: no backoff
IdleDns ==
  /\ clock = 0
  /\ backoffTime = NoTime
  /\ lastError = NoTime
  /\ answers = [g \in Goroutines |-> NoAnswer]

IdleEngine ==
  /\ blockFlag = [c \in ConsumerNames |-> FALSE]
  /\ queueLen = 0
  /\ engineUp = TRUE
  /\ eop = NoCall

IdleResolvers ==
  /\ resolvers = [n \in ResolverNames |-> <<>>]
  /\ hostKnows = FALSE
  /\ cached = {}
  /\ NoRequest


\* ------------------------------------------------------------------------
\* DNS messages
\* ------------------------------------------------------------------------
\* A resource record is its header (name, type, ttl) and its payload; a
\* record whose payload field is nil (an A record without an address) has
\* data "nil".

NoData == "nil"

RR(name, rrtype, ttl, data) ==
  [name |-> name, rrtype |-> rrtype, ttl |-> ttl, data |-> data]

\* a slot of a section that holds no record
NilRR == [nil |-> TRUE]

\* the fully qualified names of the questions
QName == <<"a", "">>

Question == [name |-> QName, qtype |-> "A", qclass |-> "IN"]

\* the records an upstream answer is made of
AnswerRecords ==
  {RR(QName, "A", 1, "10.0.0.1"), RR(QName, "A", 3, "10.0.0.1"),
   RR(QName, "A", 0, NoData)}

\* an upstream response to Question with the given answer section; it has
\* the id of the exchange with the upstream, which is no request's id
UpstreamMsg(a) ==
  [id |-> 0, truncated |-> FALSE, question |-> <<Question>>,
   answer |-> a, ns |-> <<>>, extra |-> <<>>]

\* the responses an upstream can give to Question
UpstreamResponses ==
  {UpstreamMsg(a) : a \in UNION {[1..n -> AnswerRecords] : n \in 0..MaxRecords}}

\* what reaches the cache of an upstream response: the response itself, the
\* response cut short (truncated), the response without its answer
Offered(response) ==
  {response, [response EXCEPT !.truncated = TRUE], [response EXCEPT !.answer = <<>>]}

RequestIds == {1, 2}

\* the requests: with the question, or with no question at all
Requests ==
  {[id |-> i, question |-> <<Question>>] : i \in RequestIds}
    \cup {[id |-> 1, question |-> <<>>]}

\* the requests whose responses are stored
StoreRequests == {r \in Requests : r.id = 1}

\* util.IsEmptyResponse: true unless a record of the answer section carries
\* a payload
IsEmptyResponse(msg) ==
  ~ \E i \in 1..Len(msg.answer) :
      /\ msg.answer[i] /= NilRR
      /\ msg.answer[i].data /= NoData

\* ------------------------------------------------------------------------
\* gocache
\* ------------------------------------------------------------------------

Partitions == {"p1", "p2"}

dnsMaxTtl == 604800

min(a, b) == IF a <= b THEN a ELSE b

RECURSIVE minTtl(_, _)
minTtl(currentMin, records) ==
  IF records = <<>> THEN currentMin
  ELSE minTtl(min(currentMin, Head(records).ttl), Tail(records))

\* gocache.key: the key of (partition, questions), "" (here <<>>) without a
\* question, given the partition's id
CacheKey(idx, questions) ==
  IF Len(questions) > 0
  THEN <<idx>> \o [i \in 1..Len(questions) |->
                     <<questions[i].name, questions[i].qclass, questions[i].qtype>>]
  ELSE <<>>

\* gocache.key gives a partition a new id when it sees it first
KeyIdx(partition) ==
  IF partitionIdxMap[partition] = 0 THEN partitionIdx + 1 ELSE partitionIdxMap[partition]

KeySeesPartition(partition) ==
  IF partitionIdxMap[partition] = 0
  THEN /\ partitionIdx' = partitionIdx + 1
       /\ partitionIdxMap' = [partitionIdxMap EXCEPT ![partition] = partitionIdx + 1]
  ELSE UNCHANGED <<partitionIdx, partitionIdxMap>>

\* backer.Get: the item of the key, unless it has expired
Expired(item) == now > item.expiration

Found(key) == {item \in backer : item.key = key /\ ~Expired(item)}

\* backer.ItemCount
Size == Cardinality(backer)

\* cache.New: an empty backing map, no partition seen
IdleCache ==
  /\ now = 0
  /\ upstream = UpstreamMsg(<<>>)
  /\ backer = {}
  /\ partitionIdx = 0
  /\ partitionIdxMap = [p \in Partitions |-> 0]
  /\ cop = NoCall

InitCache ==
  /\ now = 0
  /\ upstream \in UpstreamResponses
  /\ backer = {}
  /\ partitionIdx = 0
  /\ partitionIdxMap = [p \in Partitions |-> 0]
  /\ cop = NoCall
  /\ listType = [l \in ListNames |-> "block"]
  /\ NewStore
  /\ IdleResolvers
  /\ IdleEngine
  /\ IdleDns
  /\ IdleMetrics
  /\ IdleLater

\* a Store that takes the ttl of the first answer record
EnvelopeTtl_FirstRecord(response) ==
  IF Len(response.answer) < 1 THEN dnsMaxTtl ELSE min(dnsMaxTtl, response.answer[1].ttl)

\* the envelope ttl Store computes: the least ttl of the answer records, of
\* the ns records when there is no answer, of the extra records when there
\* is neither
EnvelopeTtl(response) ==
  IF Len(response.answer) < 1
  THEN IF Len(response.ns) < 1
       THEN minTtl(dnsMaxTtl, response.extra)
       ELSE minTtl(dnsMaxTtl, response.ns)
  ELSE minTtl(dnsMaxTtl, response.answer)

\* a Store that forgets the truncated flag
StoreRefuses_EmptyOnly(response) == IsEmptyResponse(response)

\* whether Store refuses the response before it looks at the key
StoreRefuses(response) == IsEmptyResponse(response) \/ response.truncated

\* gocache.Store
Store(partition, request, response) ==
  /\ IF StoreRefuses(response)
     THEN /\ cop' = [op |-> "Store", partition |-> partition, request |-> request,
                     response |-> response, ret |-> FALSE,
                     changed |-> FALSE, sizeBefore |-> Size, sizeAfter |-> Size]
          /\ UNCHANGED <<backer, partitionIdx, partitionIdxMap>>
     ELSE LET key == CacheKey(KeyIdx(partition), request.question)
              ttl == EnvelopeTtl(response)
              item == [key |-> key, message |-> response, time |-> now,
                       expiration |-> now + ttl * TicksPerSecond,
                       stored |-> response]
              after == IF key /= <<>> /\ ttl > 0
                       THEN {i \in backer : i.key /= key} \cup {item}
                       ELSE backer
          IN /\ KeySeesPartition(partition)
             /\ backer' = after
             /\ cop' = [op |-> "Store", partition |-> partition, request |-> request,
                        response |-> response, ret |-> (key /= <<>> /\ ttl > 0),
                        changed |-> (after /= backer),
                        sizeBefore |-> Size, sizeAfter |-> Cardinality(after)]
  /\ UNCHANGED <<now, upstream>>
  /\ UNCHANGED <<ruleVars, resVars, engineVars, dnsVars, metricsVars, laterVars>>

\* cache.adjustTtls
adjustTtls(timeDelta, records) ==
  [i \in 1..Len(records) |->
     [records[i] EXCEPT !.ttl = IF records[i].ttl > timeDelta
                                 THEN records[i].ttl - timeDelta ELSE 0]]

\* a Query that returns the copy with the id it was stored with
QueryMessage_StoredId(envelope, request, secondDelta) == envelope.message

\* the message Query returns for the envelope: a copy of the envelope's
\* message with the request's id
QueryMessage(envelope, request, secondDelta) ==
  [envelope.message EXCEPT !.id = request.id]

\* the envelope Query leaves in the backing map: the ttls of the
\* envelope's own message are counted down
QueryEnvelope(envelope, request, secondDelta) ==
  [envelope EXCEPT !.message =
     [envelope.message EXCEPT !.answer = adjustTtls(secondDelta, envelope.message.answer),
                              !.ns = adjustTtls(secondDelta, envelope.message.ns),
                              !.extra = adjustTtls(secondDelta, envelope.message.extra)]]

\* gocache.Query
Query(partition, request) ==
  /\ LET key == CacheKey(KeyIdx(partition), request.question)
         miss == [op |-> "Query", partition |-> partition, request |-> request,
                  hit |-> FALSE]
     IN /\ KeySeesPartition(partition)
        /\ IF key = <<>> \/ Found(key) = {}
           THEN /\ cop' = miss
                /\ UNCHANGED backer
           ELSE \E envelope \in Found(key) :
                  LET secondDelta == (now - envelope.time) \div TicksPerSecond
                  IN /\ cop' = [op |-> "Query", partition |-> partition,
                                request |-> request, hit |-> TRUE,
                                message |-> QueryMessage(envelope, request, secondDelta),
                                stored |-> envelope.stored, storedAt |-> envelope.time,
                                at |-> now,
                                prevHit |-> IF cop.op = "Query" /\ cop.hit
                                               /\ cop.partition = partition
                                            THEN cop.request.id ELSE 0]
                     /\ backer' = (backer \ {envelope})
                                    \cup {QueryEnvelope(envelope, request, secondDelta)}
  /\ UNCHANGED <<now, upstream>>
  /\ UNCHANGED <<ruleVars, resVars, engineVars, dnsVars, metricsVars, laterVars>>

\* the janitor of the backing map deletes the expired items
DeleteExpired ==
  /\ \E item \in backer : Expired(item)
  /\ backer' = {item \in backer : ~Expired(item)}
  /\ UNCHANGED <<now, upstream, partitionIdx, partitionIdxMap, cop>>
  /\ UNCHANGED <<ruleVars, resVars, engineVars, dnsVars, metricsVars, laterVars>>

\* time passes
Tick ==
  /\ now < MaxTime
  /\ now' = now + 1
  /\ UNCHANGED <<upstream, backer, partitionIdx, partitionIdxMap, cop>>
  /\ UNCHANGED <<ruleVars, resVars, engineVars, dnsVars, metricsVars, laterVars>>

NextCache ==
  \/ \E p \in Partitions, r \in StoreRequests, m \in Offered(upstream) : Store(p, r, m)
  \/ \E p \in Partitions, r \in Requests : Query(p, r)
  \/ DeleteExpired
  \/ Tick

SpecCache == InitCache /\ [][NextCache]_vars

\* ------------------------------------------------------------------------
\* gocache.key called by goroutines that serve requests at the same time.
\* The backing map locks itself; partitionIdx and partitionIdxMap are not
\* under a lock, so the statements of key interleave.
\* ------------------------------------------------------------------------

KeyOthers == <<ruleVars, resVars, engineVars, dnsVars, metricsVars, shutVars, counterVars,
               streamVars, consumerVars, emptyVars, textVars, lockVars, failVars, protoVars, windowVars, tagVars>>

\* the one response the callers store
KeyedResponse == UpstreamMsg(<<RR(QName, "A", 3, "10.0.0.1")>>)

CacheOps == {"Store", "Query"}

\* key, line 70: the lookup of the partition in partitionIdxMap
KeyLooks(g, op, partition) ==
  /\ keyCalls[g].op \in {"none", "Stored", "Queried"}
  /\ keyCalls' = [keyCalls EXCEPT ![g] =
       [op |-> op, partition |-> partition,
        pc |-> IF partitionIdxMap[partition] = 0 THEN "increment" ELSE "build"]]
  /\ UNCHANGED <<partitionIdx, partitionIdxMap, backer, storedUnder, now, upstream, cop>>
  /\ UNCHANGED KeyOthers

\* key, line 71: gocache.partitionIdx++
KeyIncrements(g) ==
  /\ keyCalls[g].op \in CacheOps
  /\ keyCalls[g].pc = "increment"
  /\ partitionIdx' = partitionIdx + 1
  /\ keyCalls' = [keyCalls EXCEPT ![g].pc = "put"]
  /\ UNCHANGED <<partitionIdxMap, backer, storedUnder, now, upstream, cop>>
  /\ UNCHANGED KeyOthers

\* key, line 72: partitionIdxMap[partition] = gocache.partitionIdx
KeyPuts(g) ==
  /\ keyCalls[g].op \in CacheOps
  /\ keyCalls[g].pc = "put"
  /\ partitionIdxMap' = [partitionIdxMap EXCEPT ![keyCalls[g].partition] = partitionIdx]
  /\ keyCalls' = [keyCalls EXCEPT ![g].pc = "build"]
  /\ UNCHANGED <<partitionIdx, backer, storedUnder, now, upstream, cop>>
  /\ UNCHANGED KeyOthers

\* key, lines 75-86: the key is built from the id the map holds now
KeyBuilds(g) ==
  /\ keyCalls[g].op \in CacheOps
  /\ keyCalls[g].pc = "build"
  /\ keyCalls' = [keyCalls EXCEPT ![g] =
       [op |-> keyCalls[g].op, partition |-> keyCalls[g].partition, pc |-> "backer",
        key |-> CacheKey(partitionIdxMap[keyCalls[g].partition], <<Question>>)]]
  /\ UNCHANGED <<partitionIdx, partitionIdxMap, backer, storedUnder, now, upstream, cop>>
  /\ UNCHANGED KeyOthers

\* Store, lines 102-120: backer.Set(key, envelope, ttl)
BackerSets(g) ==
  /\ keyCalls[g].op = "Store"
  /\ keyCalls[g].pc = "backer"
  /\ LET key == keyCalls[g].key
         item == [key |-> key, message |-> KeyedResponse, time |-> now,
                  expiration |-> now + EnvelopeTtl(KeyedResponse) * TicksPerSecond,
                  stored |-> KeyedResponse]
     IN /\ backer' = {i \in backer : i.key /= key} \cup {item}
        /\ storedUnder' = {s \in storedUnder : s[1] /= key}
                            \cup {<<key, keyCalls[g].partition>>}
  /\ keyCalls' = [keyCalls EXCEPT ![g] =
       [op |-> "Stored", partition |-> keyCalls[g].partition]]
  /\ UNCHANGED <<partitionIdx, partitionIdxMap, now, upstream, cop>>
  /\ UNCHANGED KeyOthers

\* Query, lines 143-146: backer.Get(key)
BackerGets(g) ==
  /\ keyCalls[g].op = "Query"
  /\ keyCalls[g].pc = "backer"
  /\ keyCalls' = [keyCalls EXCEPT ![g] =
       [op |-> "Queried", partition |-> keyCalls[g].partition,
        hit |-> Found(keyCalls[g].key) /= {},
        from |-> {s[2] : s \in {t \in storedUnder : t[1] = keyCalls[g].key}}]]
  /\ UNCHANGED <<partitionIdx, partitionIdxMap, backer, storedUnder, now, upstream, cop>>
  /\ UNCHANGED KeyOthers

InitKey ==
  /\ IdleCache
  /\ IdleKey
  /\ listType = [l \in ListNames |-> "block"]
  /\ NewStore
  /\ IdleResolvers
  /\ IdleEngine
  /\ IdleDns
  /\ IdleMetrics
  /\ IdleShutdown
  /\ IdleCounters
  /\ IdleStream
  /\ IdleConsumers
  /\ IdleEmpty
  /\ IdleText
  /\ IdleLock
  /\ IdleFail
  /\ IdleProto
  /\ IdleWindow
  /\ IdleTag

NextKey ==
  \/ \E g \in Goroutines, op \in CacheOps, p \in Partitions : KeyLooks(g, op, p)
  \/ \E g \in Goroutines : KeyIncrements(g)
  \/ \E g \in Goroutines : KeyPuts(g)
  \/ \E g \in Goroutines : KeyBuilds(g)
  \/ \E g \in Goroutines : BackerSets(g)
  \/ \E g \in Goroutines : BackerGets(g)

SpecKey == InitKey /\ [][NextKey]_vars

\* ------------------------------------------------------------------------
\* C31: a response stored under a partition is never returned by a Query
\* for another partition, whatever the interleaving of the Store and Query
\* calls, and two partition strings never have the same partition id.
\* ------------------------------------------------------------------------

C31_PartitionsIsolated ==
  /\ \A g \in Goroutines :
       (keyCalls[g].op = "Queried" /\ keyCalls[g].hit) =>
         keyCalls[g].from = {keyCalls[g].partition}
  /\ \A p, q \in Partitions :
       (p /= q /\ partitionIdxMap[p] /= 0 /\ partitionIdxMap[q] /= 0) =>
         partitionIdxMap[p] /= partitionIdxMap[q]

\* ------------------------------------------------------------------------
\* util.IsEmptyResponse on the messages of TestIsEmpty
\* ------------------------------------------------------------------------
\* The test makes the sections with make([]dns.RR, n), every slot nil, and
\* sets slots one by one.

EmptyOthers == <<ruleVars, cacheVars, resVars, engineVars, dnsVars, metricsVars, shutVars,
                 counterVars, streamVars, consumerVars, textVars, lockVars, failVars, lastVars>>

TestName == <<"test", "">>

\* an A record that comes with an address
EmptyA_WithAddress == RR(TestName, "A", 0, "127.0.0.1")

\* &dns.A{Hdr: ...}, and the same with A: nil
EmptyA == RR(TestName, "A", 0, NoData)

\* &dns.AAAA{Hdr: ...}
EmptyAAAA == RR(TestName, "AAAA", 0, NoData)

\* &dns.A{Hdr: ..., A: net.ParseIP("127.0.0.1")}
FullA == RR(TestName, "A", 0, "127.0.0.1")

\* &dns.SOA{Hdr: ..., Ns: "ns.soa.com", ...}
FullSOA == RR(TestName, "SOA", 0, "ns.soa.com")

Slots == {NilRR, EmptyA, EmptyAAAA, FullA, FullSOA}

Sections == {"answer", "ns", "extra"}

\* response.Answer = make([]dns.RR, n), and the other sections
MakeSection(n) == [i \in 1..n |-> NilRR]

\* response.Answer[i] = record, and the other sections
SetsSlot(section, i, record) ==
  /\ i \in 1..Len(emsg[section])
  /\ section = "answer" => record /= FullSOA
  /\ emsg' = [emsg EXCEPT ![section][i] = record]
  /\ UNCHANGED EmptyOthers

InitEmpty ==
  /\ \E a \in 0..MaxSlots, n \in 0..MaxSlots, e \in 0..1 :
       emsg = [answer |-> MakeSection(a), ns |-> MakeSection(n), extra |-> MakeSection(e)]
  /\ IdleConsumers
  /\ IdleText
  /\ IdleLock
  /\ IdleStream
  /\ IdleCounters
  /\ IdleShutdown
  /\ IdleMetrics
  /\ IdleDns
  /\ listType = [l \in ListNames |-> "block"]
  /\ NewStore
  /\ IdleCache
  /\ IdleResolvers
  /\ IdleEngine
  /\ IdleFail
  /\ IdleLast

NextEmpty ==
  \E section \in Sections, i \in 1..MaxSlots, record \in Slots : SetsSlot(section, i, record)

SpecEmpty == InitEmpty /\ [][NextEmpty]_vars

\* the records of a section that are set and carry a payload
Payloads(section) ==
  {i \in 1..Len(section) : section[i] /= NilRR /\ section[i].data /= NoData}

Ref(name) == [kind |-> "resolver", name |-> name]
HostFile == [kind |-> "hostfile", name |-> "hosts"]
Remote == [kind |-> "dns", name |-> "10.0.0.53:53"]

\* the sources a resolver can be configured with
Sources == {Ref(n) : n \in ResolverNames} \cup {HostFile, Remote}

\* the source lists of a resolver: up to MaxSources sources, none twice
SourceLists ==
  {l \in UNION {[1..n -> Sources] : n \in 0..MaxSources} :
     \A i, j \in 1..Len(l) : l[i] = l[j] => i = j}

\* the lists of resolver names of a consumer
NameLists == {<<"A">>, <<"B">>, <<"A", "B">>}

IsEmpty(r) == r \in {NilResponse, "empty"}

InitResolve ==
  /\ resolvers \in [ResolverNames -> SourceLists]
  /\ hostKnows \in BOOLEAN
  /\ cached = {}
  /\ NoRequest
  /\ listType = [l \in ListNames |-> "block"]
  /\ NewStore
  /\ IdleCache
  /\ IdleEngine
  /\ IdleDns
  /\ IdleMetrics
  /\ IdleLater

\* util.StringIn
StringIn(value, list) == \E i \in 1..Len(list) : list[i] = value

\* ResolverMap.AnswerMultiResolvers is called: a new context, nothing
\* visited
Resolve(ns) ==
  /\ rpc \in {"idle", "done"}
  /\ rpc' = "running"
  /\ names' = ns
  /\ mi' = 1
  /\ stack' = <<>>
  /\ Visited' = <<>>
  /\ ret' = NoRet
  /\ outcome' = NilResponse
  /\ entered' = <<>>
  /\ hit' = FALSE
  /\ guarded' = FALSE
  /\ UNCHANGED <<resolvers, hostKnows, cached, answered>>
  /\ UNCHANGED <<ruleVars, cacheVars, engineVars, dnsVars, metricsVars, laterVars>>

\* ResolverMap.answerWithContext(name, context, request), up to the point
\* where it delegates to the resolver: the guard on Visited, the append to
\* Visited, the cache probe. It hands back a response at once (ret) or
\* starts the resolver (a new frame on the stack).
answerWithContext(name, visited) ==
  IF StringIn(name, visited)
  THEN /\ ret' = NilResponse
       /\ UNCHANGED <<Visited, stack, entered, hit, rpc>>
  ELSE /\ Visited' = Append(visited, name)
       /\ IF name \in cached
          THEN /\ ret' = "cached"
               /\ hit' = TRUE
               /\ UNCHANGED <<stack, entered, rpc>>
          ELSE IF Len(stack) >= MaxStack
               THEN /\ rpc' = "overflow"
                    /\ UNCHANGED <<ret, stack, entered, hit>>
               ELSE /\ stack' = Append(stack, [name |-> name, idx |-> 1])
                    /\ entered' = Append(entered, name)
                    /\ UNCHANGED <<ret, hit, rpc>>

\* AnswerMultiResolvers tries the next resolver of its list
TryResolver ==
  /\ rpc = "running"
  /\ stack = <<>>
  /\ ret = NoRet
  /\ mi <= Len(names)
  /\ answerWithContext(names[mi], Visited)
  /\ UNCHANGED <<resolvers, hostKnows, cached, names, mi, outcome, answered, guarded>>
  /\ UNCHANGED <<ruleVars, cacheVars, engineVars, dnsVars, metricsVars, laterVars>>

\* AnswerMultiResolvers gets the response of the resolver it tried: the
\* first non-empty response is returned; after the last resolver, the last
\* response
MultiReturn ==
  /\ rpc = "running"
  /\ stack = <<>>
  /\ ret /= NoRet
  /\ IF ~IsEmpty(ret) \/ mi >= Len(names)
     THEN /\ rpc' = "done"
          /\ outcome' = ret
          /\ UNCHANGED mi
     ELSE /\ mi' = mi + 1
          /\ UNCHANGED <<rpc, outcome>>
  /\ ret' = NoRet
  /\ UNCHANGED <<resolvers, hostKnows, cached, names, stack, Visited, entered,
                 answered, hit, guarded>>
  /\ UNCHANGED <<ruleVars, cacheVars, engineVars, dnsVars, metricsVars, laterVars>>

Top == stack[Len(stack)]

Pop == SubSeq(stack, 1, Len(stack) - 1)

Advance == [stack EXCEPT ![Len(stack)].idx = @ + 1]

\* the resolver on top of the stack returns r to answerWithContext, which
\* stores a non-empty response that has a ttl in the cache under the
\* resolver's name and hands it on
ResolverReturns(r) ==
  /\ stack' = Pop
  /\ ret' = r
  /\ cached' = IF r \in {"dns", "cached"} THEN cached \cup {Top.name} ELSE cached

\* resolverSource.Answer handing answerWithContext a context of its own
\* instead of the caller's
resolverSourceAnswer_NewContext(source) ==
  /\ answerWithContext(source.name, <<>>)
  /\ UNCHANGED guarded

\* resolverSource.Answer taking its caller off Visited before it delegates
resolverSourceAnswer_ForgetCaller(source) ==
  IF StringIn(source.name, Visited)
  THEN /\ ret' = NilResponse
       /\ guarded' = TRUE
       /\ UNCHANGED <<Visited, stack, entered, hit, rpc>>
  ELSE /\ answerWithContext(source.name, SubSeq(Visited, 1, Len(Visited) - 1))
       /\ UNCHANGED guarded

\* resolverSource.Answer running the resolver it names by itself, without
\* answerWithContext
resolverSourceAnswer_RunsResolver(source) ==
  IF StringIn(source.name, Visited)
  THEN /\ ret' = NilResponse
       /\ guarded' = TRUE
       /\ UNCHANGED <<Visited, stack, entered, hit, rpc>>
  ELSE /\ stack' = Append(stack, [name |-> source.name, idx |-> 1])
       /\ entered' = Append(entered, source.name)
       /\ UNCHANGED <<Visited, ret, hit, rpc, guarded>>

\* resolverSource.Answer: nothing when the resolver it names is in Visited,
\* otherwise what answerWithContext gives for that resolver
resolverSourceAnswer(source) ==
  IF StringIn(source.name, Visited)
  THEN /\ ret' = NilResponse
       /\ guarded' = TRUE
       /\ UNCHANGED <<Visited, stack, entered, hit, rpc>>
  ELSE /\ answerWithContext(source.name, Visited)
       /\ UNCHANGED guarded

\* hostFileSource.Answer: always a response, with the address when the
\* hostfile has the name
hostFileSourceAnswer == IF hostKnows THEN "host" ELSE "empty"

\* dnsSource.Answer: nothing (backed off, or the exchange failed), or the
\* response of the server, with or without an answer
dnsSourceAnswers == {NilResponse, "empty", "dns"}

\* the resolver on top of the stack asks its next source
AskSource ==
  /\ rpc = "running"
  /\ stack /= <<>>
  /\ ret = NoRet
  /\ Top.idx <= Len(resolvers[Top.name])
  /\ LET source == resolvers[Top.name][Top.idx]
     IN CASE source.kind = "resolver" ->
               /\ resolverSourceAnswer(source)
               /\ UNCHANGED <<answered, cached>>
          [] source.kind = "hostfile" ->
               /\ ret' = hostFileSourceAnswer
               /\ answered' = (answered \/ hostKnows)
               /\ UNCHANGED <<Visited, stack, entered, hit, rpc, guarded, cached>>
          [] source.kind = "dns" ->
               /\ \E r \in dnsSourceAnswers : ret' = r
               /\ answered' = (answered \/ ret' = "dns")
               /\ UNCHANGED <<Visited, stack, entered, hit, rpc, guarded, cached>>
  /\ UNCHANGED <<resolvers, hostKnows, names, mi, outcome>>
  /\ UNCHANGED <<ruleVars, cacheVars, engineVars, dnsVars, metricsVars, laterVars>>

\* the resolver on top of the stack gets the response of the source it
\* asked: a non-empty response wins and the resolver returns it, otherwise
\* the next source is asked
SourceReturn ==
  /\ rpc = "running"
  /\ stack /= <<>>
  /\ ret /= NoRet
  /\ IF ~IsEmpty(ret)
     THEN ResolverReturns(ret)
     ELSE /\ stack' = Advance
          /\ ret' = NoRet
          /\ UNCHANGED cached
  /\ UNCHANGED <<resolvers, hostKnows, rpc, names, mi, Visited, outcome, entered,
                 answered, hit, guarded>>
  /\ UNCHANGED <<ruleVars, cacheVars, engineVars, dnsVars, metricsVars, laterVars>>

\* the resolver on top of the stack has asked all its sources in vain
SourcesExhausted ==
  /\ rpc = "running"
  /\ stack /= <<>>
  /\ ret = NoRet
  /\ Top.idx > Len(resolvers[Top.name])
  /\ ResolverReturns("empty")
  /\ UNCHANGED <<resolvers, hostKnows, rpc, names, mi, Visited, outcome, entered,
                 answered, hit, guarded>>
  /\ UNCHANGED <<ruleVars, cacheVars, engineVars, dnsVars, metricsVars, laterVars>>

\* the cache drops the response held under a resolver's name (its ttl ran
\* out)
CacheExpires(name) ==
  /\ rpc \in {"idle", "done"}
  /\ name \in cached
  /\ cached' = cached \ {name}
  /\ UNCHANGED <<resolvers, hostKnows, rpc, names, mi, stack, Visited, ret,
                 outcome, entered, answered, hit, guarded>>
  /\ UNCHANGED <<ruleVars, cacheVars, engineVars, dnsVars, metricsVars, laterVars>>

\* the steps of one resolution
ResolveStep ==
  \/ TryResolver
  \/ MultiReturn
  \/ AskSource
  \/ SourceReturn
  \/ SourcesExhausted

NextResolve ==
  \/ \E ns \in NameLists : Resolve(ns)
  \/ ResolveStep
  \/ \E n \in ResolverNames : CacheExpires(n)

SpecResolve == InitResolve /\ [][NextResolve]_vars

\* a resolution that has started goes on running: it is one sequential call
SpecResolveFair == SpecResolve /\ WF_vars(ResolveStep)

\* ------------------------------------------------------------------------
\* dnsSource
\* ------------------------------------------------------------------------
\* Answer is called by the goroutines of the requests, on one source they
\* share; nothing guards backoffTime. A call is taken statement by
\* statement: "idle" (no call, or returned), "checked" (past the test of
\* the backoff), "cleared" (backoffTime set to nil), "querying" (the
\* request is on its way to the peer).

backoffInterval == 15

\* a source that never wakes up once it backed off
Asleep_Forever == backoffTime /= NoTime

\* now.Before(*dnsSource.backoffTime)
Asleep == backoffTime /= NoTime /\ clock < backoffTime

\* the call is made less than backoffInterval after a transport error
AfterError == lastError /= NoTime /\ clock < lastError + backoffInterval

\* dnsSource.Answer is called: now is read and the backoff tested
AnswerCalled(g, rd) ==
  /\ answers[g].pc = "idle"
  /\ answers' = [answers EXCEPT ![g] =
       [pc |-> IF Asleep THEN "idle" ELSE "checked",
        rd |-> rd,
        asleep |-> AfterError,
        contacted |-> FALSE,
        ret |-> IF Asleep THEN "nil" ELSE "none"]]
  /\ UNCHANGED <<clock, backoffTime, lastError>>
  /\ UNCHANGED <<ruleVars, cacheVars, resVars, engineVars, metricsVars, laterVars>>

\* "the backoff time is irrelevant now"
AnswerClears(g) ==
  /\ answers[g].pc = "checked"
  /\ backoffTime' = NoTime
  /\ answers' = [answers EXCEPT ![g].pc = "cleared"]
  /\ UNCHANGED <<clock, lastError>>
  /\ UNCHANGED <<ruleVars, cacheVars, resVars, engineVars, metricsVars, laterVars>>

\* a request that does not ask for recursion is not forwarded; another is
\* sent to the peer
AnswerQueries(g) ==
  /\ answers[g].pc = "cleared"
  /\ answers' = [answers EXCEPT ![g] =
       IF answers[g].rd
       THEN [@ EXCEPT !.pc = "querying", !.contacted = TRUE]
       ELSE [@ EXCEPT !.pc = "idle", !.ret = "nil"]]
  /\ UNCHANGED <<clock, backoffTime, lastError>>
  /\ UNCHANGED <<ruleVars, cacheVars, resVars, engineVars, metricsVars, laterVars>>

\* the query ends with the response of the peer
AnswerReturns(g, response) ==
  /\ answers[g].pc = "querying"
  /\ answers' = [answers EXCEPT ![g].pc = "idle", ![g].ret = response]
  /\ UNCHANGED <<clock, backoffTime, lastError>>
  /\ UNCHANGED <<ruleVars, cacheVars, resVars, engineVars, metricsVars, laterVars>>

\* the backoff a transport error sets
Backoff(t) == t + backoffInterval

\* the query ends with a transport error: the source backs off
AnswerFails(g) ==
  /\ answers[g].pc = "querying"
  /\ backoffTime' = Backoff(clock)
  /\ lastError' = clock
  /\ answers' = [answers EXCEPT ![g].pc = "idle", ![g].ret = "error"]
  /\ UNCHANGED clock
  /\ UNCHANGED <<ruleVars, cacheVars, resVars, engineVars, metricsVars, laterVars>>

\* a second passes, or the time of the backoff
ClockTick ==
  /\ \E d \in {1, backoffInterval} :
       /\ clock + d <= MaxClock
       /\ clock' = clock + d
  /\ UNCHANGED <<backoffTime, lastError, answers>>
  /\ UNCHANGED <<ruleVars, cacheVars, resVars, engineVars, metricsVars, laterVars>>

InitDns ==
  /\ IdleDns
  /\ IdleMetrics
  /\ listType = [l \in ListNames |-> "block"]
  /\ NewStore
  /\ IdleCache
  /\ IdleResolvers
  /\ IdleEngine
  /\ IdleLater

NextDns ==
  \/ \E g \in Goroutines, rd \in BOOLEAN : AnswerCalled(g, rd)
  \/ \E g \in Goroutines : AnswerClears(g)
  \/ \E g \in Goroutines : AnswerQueries(g)
  \/ \E g \in Goroutines, response \in {"empty", "answer"} : AnswerReturns(g, response)
  \/ \E g \in Goroutines : AnswerFails(g)
  \/ ClockTick

SpecDns == InitDns /\ [][NextDns]_vars

\* ------------------------------------------------------------------------
\* dnsSource: the protocol of the exchange with the peer
\* ------------------------------------------------------------------------

ProtoOthers == <<ruleVars, cacheVars, resVars, engineVars, dnsVars, metricsVars, shutVars,
                 counterVars, streamVars, consumerVars, emptyVars, textVars, lockVars,
                 failVars, keyVars, windowVars, tagVars>>

validProtocols == {"udp", "tcp", "tcp-tls"}

\* rCon == nil
NilCon == [nil |-> TRUE]

NotChosen == "<none>"

\* what follows the "/" of a source address: nothing, a protocol in either
\* case, something else
ProtocolTexts == {"", "udp", "tcp", "tcp-tls", "TCP", "Tcp-Tls", "bogus"}

\* strings.ToLower
ToLower(text) ==
  IF text = "TCP" THEN "tcp" ELSE IF text = "Tcp-Tls" THEN "tcp-tls" ELSE text

\* newDNSSource: the protocol of the source; an address with a part after
\* "/" that is no protocol is no IP address and gives no source
SourceProtocols ==
  {ToLower(t) : t \in {u \in ProtocolTexts : u = "" \/ ToLower(u) \in validProtocols}}

\* the request contexts: none, or one with the protocol the request came by
\* (Handle's argument, which may be the empty string)
RequestContexts == {NilCon} \cup {[protocol |-> p] : p \in validProtocols \cup {""}}

\* a choice that falls back to udp whenever nothing else is known
ChosenProtocol_UdpWhenEmpty(ofSource, con) ==
  IF ofSource /= "" THEN ofSource
  ELSE IF con /= NilCon /\ con.protocol /= "" THEN con.protocol
  ELSE "udp"

\* dnsSource.Answer, lines 162-167
ChosenProtocol(ofSource, con) ==
  IF ofSource = "" /\ con /= NilCon THEN con.protocol
  ELSE IF ofSource = "" THEN "udp"
  ELSE ofSource

\* Answer up to the call of query
AnswerChooses ==
  /\ coType = NotChosen
  /\ coType' = ChosenProtocol(dnsProtocol, reqCon)
  /\ UNCHANGED <<dnsProtocol, reqCon, dialed, dialLog>>
  /\ UNCHANGED ProtoOthers

\* query: the dial of the network named by the protocol; a network with no
\* name cannot be dialed
QueryDials(result) ==
  /\ coType /= NotChosen
  /\ dialed = "none"
  /\ coType \notin validProtocols => result = "error"
  /\ dialed' = result
  /\ dialLog' = dialLog \cup {coType}
  /\ UNCHANGED <<dnsProtocol, reqCon, coType>>
  /\ UNCHANGED ProtoOthers

\* the answer has been given: the source is asked again
AnswerEnds ==
  /\ dialed /= "none"
  /\ coType' = NotChosen
  /\ dialed' = "none"
  /\ \E con \in RequestContexts : reqCon' = con
  /\ UNCHANGED <<dnsProtocol, dialLog>>
  /\ UNCHANGED ProtoOthers

InitProto ==
  /\ dnsProtocol \in SourceProtocols
  /\ reqCon \in RequestContexts
  /\ coType = NotChosen
  /\ dialed = "none"
  /\ dialLog = {}
  /\ listType = [l \in ListNames |-> "block"]
  /\ NewStore
  /\ IdleCache
  /\ IdleResolvers
  /\ IdleEngine
  /\ IdleDns
  /\ IdleMetrics
  /\ IdleShutdown
  /\ IdleCounters
  /\ IdleStream
  /\ IdleConsumers
  /\ IdleEmpty
  /\ IdleText
  /\ IdleLock
  /\ IdleFail
  /\ IdleKey
  /\ IdleWindow
  /\ IdleTag

NextProto ==
  \/ AnswerChooses
  \/ \E result \in {"ok", "error"} : QueryDials(result)
  \/ AnswerEnds

SpecProto == InitProto /\ [][NextProto]_vars

\* ------------------------------------------------------------------------
\* C33: the protocol Answer uses is the source's when it has one, else the
\* request's when it is known, else udp; it is always one of udp, tcp and
\* tcp-tls, never empty.
\* ------------------------------------------------------------------------

C33_ProtocolValid ==
  coType /= NotChosen =>
    /\ coType \in validProtocols
    /\ coType = (IF dnsProtocol /= "" THEN dnsProtocol
                 ELSE IF reqCon /= NilCon /\ reqCon.protocol /= "" THEN reqCon.protocol
                 ELSE "udp")

\* C11: a call of Answer made less than 15 s after a transport error
\* returns (nil, nil) and does not contact the peer.
C11_AsleepAfterError ==
  \A g \in Goroutines :
    answers[g].asleep =>
      /\ answers[g].pc = "idle"
      /\ answers[g].ret = "nil"
      /\ ~answers[g].contacted

\* the call of g has returned
Answered(g) == answers[g].pc = "idle" /\ answers[g].ret /= "none"

\* no goroutine but g has called Answer
OnlyCaller(g) == \A h \in Goroutines \ {g} : answers[h] = NoAnswer

\* C32: a call of Answer with recursion desired made at or after the error
\* time + 15 s contacts the peer; a back-off that is armed is the one of
\* the last error and ends 15 s after that error; with one caller, a
\* successful exchange leaves no back-off armed and an error leaves the
\* back-off of that error.
C32_BackoffTemporary ==
  /\ \A g \in Goroutines :
       (Answered(g) /\ ~answers[g].asleep /\ answers[g].rd) => answers[g].contacted
  /\ backoffTime /= NoTime =>
       /\ lastError /= NoTime
       /\ backoffTime = lastError + backoffInterval
  /\ \A g \in Goroutines :
       (OnlyCaller(g) /\ Answered(g)) =>
         /\ answers[g].ret \in {"empty", "answer"} => backoffTime = NoTime
         /\ answers[g].ret = "error" => backoffTime = lastError + backoffInterval

\* the source had an error, the caller came back when the back-off was
\* over, the peer was contacted and answered, and no back-off is armed
C32_Witness ==
  \E g \in Goroutines :
    /\ OnlyCaller(g)
    /\ lastError /= NoTime
    /\ clock >= lastError + backoffInterval
    /\ Answered(g)
    /\ ~answers[g].asleep
    /\ answers[g].rd
    /\ answers[g].contacted
    /\ answers[g].ret = "answer"
    /\ backoffTime = NoTime

\* ------------------------------------------------------------------------
\* metrics: the queue, the worker, Stop
\* ------------------------------------------------------------------------
\* New makes metricsInfoChan and starts the worker as a goroutine; the
\* worker makes doneTicker when it starts to run. The queue holds QueueCap
\* entries (100000 in New).

AllOtherVars == <<ruleVars, cacheVars, resVars, engineVars, dnsVars, laterVars>>

\* metrics.RecordQueryMetrics: metricsInfoChan <- msg. The send completes
\* when the queue has room, waits when it is full, panics when the channel
\* is closed.
RecordQueryMetrics(g) ==
  /\ senders[g] = "idle"
  /\ IF infoClosed
     THEN /\ senders' = [senders EXCEPT ![g] = "panicked"]
          /\ UNCHANGED infoChan
     ELSE IF infoChan < QueueCap
     THEN /\ infoChan' = infoChan + 1
          /\ UNCHANGED senders
     ELSE /\ senders' = [senders EXCEPT ![g] = "blocked"]
          /\ UNCHANGED infoChan
  /\ UNCHANGED <<dbEnabled, infoClosed, wpc, spc, metricsDbOpen, lastWork, acked, lateWork, owed>>
  /\ UNCHANGED AllOtherVars

\* a send that waited completes when the worker has made room
SendCompletes(g) ==
  /\ senders[g] = "blocked"
  /\ ~infoClosed
  /\ infoChan < QueueCap
  /\ infoChan' = infoChan + 1
  /\ senders' = [senders EXCEPT ![g] = "idle"]
  /\ UNCHANGED <<dbEnabled, infoClosed, wpc, spc, metricsDbOpen, lastWork, acked, lateWork, owed>>
  /\ UNCHANGED AllOtherVars

\* the worker starts to run: ticker, doneTicker, lastInsert, the timers
WorkerStarts ==
  /\ wpc = "new"
  /\ wpc' = "loop"
  /\ UNCHANGED <<dbEnabled, infoChan, infoClosed, senders, spc, metricsDbOpen, lastWork,
                 acked, lateWork, owed>>
  /\ UNCHANGED AllOtherVars

\* what the worker does is noted, and whether it comes after the
\* acknowledgement
Works(what) ==
  /\ lastWork' = what
  /\ lateWork' = (lateWork \/ acked)

\* case <-metrics.ticker.C: update, and insert when there is a database
TickerFires ==
  /\ wpc = "loop"
  /\ Works(IF dbEnabled THEN "insert" ELSE "update")
  /\ UNCHANGED <<dbEnabled, infoChan, infoClosed, senders, wpc, spc, metricsDbOpen, acked, owed>>
  /\ UNCHANGED AllOtherVars

\* case <-pruneTimer.C (the timer is stopped when there is no database)
PruneFires ==
  /\ wpc = "loop"
  /\ dbEnabled
  /\ Works("prune")
  /\ UNCHANGED <<dbEnabled, infoChan, infoClosed, senders, wpc, spc, metricsDbOpen, acked, owed>>
  /\ UNCHANGED AllOtherVars

\* case <-flushTimer.C
FlushFires ==
  /\ wpc = "loop"
  /\ Works("flush")
  /\ UNCHANGED <<dbEnabled, infoChan, infoClosed, senders, wpc, spc, metricsDbOpen, acked, owed>>
  /\ UNCHANGED AllOtherVars

\* case info := <-metrics.metricsInfoChan: metrics.record(info)
WorkerRecords ==
  /\ wpc = "loop"
  /\ infoChan > 0
  /\ infoChan' = infoChan - 1
  /\ owed' = IF owed > 0 THEN owed - 1 ELSE 0
  /\ Works("record")
  /\ UNCHANGED <<dbEnabled, infoClosed, senders, wpc, spc, metricsDbOpen, acked>>
  /\ UNCHANGED AllOtherVars

\* metrics.Stop is called: metrics.doneTicker <- true. Before the worker
\* has made the channel the field is nil, and a send on a nil channel
\* never completes.
StopCalled ==
  /\ spc = "none"
  /\ spc' = IF wpc = "new" THEN "stuck" ELSE "posting"
  /\ owed' = infoChan
  /\ UNCHANGED <<dbEnabled, infoChan, infoClosed, senders, wpc, metricsDbOpen, lastWork,
                 acked, lateWork>>
  /\ UNCHANGED AllOtherVars

\* case <-metrics.doneTicker: the worker takes what Stop posted, whatever
\* else is ready, defers its acknowledgement and returns
WorkerTakesDone ==
  /\ wpc = "loop"
  /\ spc = "posting"
  /\ wpc' = "acking"
  /\ spc' = "waiting"
  /\ UNCHANGED <<dbEnabled, infoChan, infoClosed, senders, metricsDbOpen, lastWork, acked,
                 lateWork, owed>>
  /\ UNCHANGED AllOtherVars

\* the worker goes on with its loop after the acknowledgement
AfterAck_KeepsRunning == "loop"

\* the worker is returning when it acknowledges: only its timers are
\* stopped afterwards
AfterAck == "exited"

\* the deferred metrics.doneTicker <- true meets the <-metrics.doneTicker
\* of Stop
WorkerAcknowledges ==
  /\ wpc = "acking"
  /\ spc = "waiting"
  /\ wpc' = AfterAck
  /\ spc' = "closing"
  /\ acked' = TRUE
  /\ UNCHANGED <<dbEnabled, infoChan, infoClosed, senders, metricsDbOpen, lastWork, lateWork, owed>>
  /\ UNCHANGED AllOtherVars

\* close(metrics.doneTicker); close(metrics.metricsInfoChan): a send that
\* waits on the channel panics
StopCloses ==
  /\ spc = "closing"
  /\ infoClosed' = TRUE
  /\ senders' = [g \in Goroutines |-> IF senders[g] = "blocked" THEN "panicked" ELSE senders[g]]
  /\ spc' = IF dbEnabled THEN "insert" ELSE "done"
  /\ UNCHANGED <<dbEnabled, infoChan, wpc, metricsDbOpen, lastWork, acked, lateWork, owed>>
  /\ UNCHANGED AllOtherVars

\* the statement of Stop after s, when there is a database
StopThen(s) ==
  CASE s = "insert" -> "prune"
    [] s = "prune" -> "flush"
    [] s = "flush" -> "close"
    [] s = "close" -> "done"

\* metrics.insert(time.Now()); metrics.prune(); flushDetailedMetrics();
\* metrics.db.Close()
StopStep ==
  /\ spc \in {"insert", "prune", "flush", "close"}
  /\ spc' = StopThen(spc)
  /\ metricsDbOpen' = IF spc = "close" THEN FALSE ELSE metricsDbOpen
  /\ UNCHANGED <<dbEnabled, infoChan, infoClosed, senders, wpc, lastWork, acked,
                 lateWork, owed>>
  /\ UNCHANGED AllOtherVars

InitMetrics ==
  /\ dbEnabled \in BOOLEAN
  /\ NewMetrics
  /\ IdleDns
  /\ listType = [l \in ListNames |-> "block"]
  /\ NewStore
  /\ IdleCache
  /\ IdleResolvers
  /\ IdleEngine
  /\ IdleLater

NextMetrics ==
  \/ \E g \in Goroutines : RecordQueryMetrics(g)
  \/ \E g \in Goroutines : SendCompletes(g)
  \/ WorkerStarts
  \/ TickerFires
  \/ PruneFires
  \/ FlushFires
  \/ WorkerRecords
  \/ StopCalled
  \/ WorkerTakesDone
  \/ WorkerAcknowledges
  \/ StopCloses
  \/ StopStep

SpecMetrics == InitMetrics /\ [][NextMetrics]_vars

\* C18: recording a handled query never blocks the request path: at most
\* QueueCap entries are buffered, and a call made while the queue is full
\* returns at once.
C18_EnqueueNeverBlocks ==
  /\ infoChan <= QueueCap
  /\ \A g \in Goroutines : senders[g] /= "blocked"

\* Stop is past the acknowledgement
StopPastAck == spc \in {"closing", "insert", "prune", "flush", "close", "done"}

\* C19: Stop closes the queue, makes the final insert and prune and closes
\* the database only after the worker has acknowledged, the worker
\* acknowledges only what Stop has posted, and after its acknowledgement
\* the worker records, inserts, prunes and flushes nothing.
C19_Handshake ==
  /\ (infoClosed \/ (dbEnabled /\ ~metricsDbOpen) \/ StopPastAck) => acked
  /\ acked => (StopPastAck /\ wpc \notin {"new", "acking"})
  /\ ~lateWork

\* Stop has run to its end with a database: the worker has worked, then
\* acknowledged and returned
C19_Witness ==
  /\ spc = "done"
  /\ dbEnabled
  /\ ~metricsDbOpen
  /\ acked
  /\ wpc = "exited"
  /\ lastWork = "record"

\* C20: every entry queued before Stop is called is recorded before Stop
\* writes the final insert.
C20_QueueDrained ==
  spc \in {"prune", "flush", "close", "done"} => owed = 0


\* C39: Stop always returns: whenever it is called, before or after the
\* worker has started to run, its send on doneTicker is one the worker
\* will meet, so Stop is never at a send that nothing can complete
C39_StopAlwaysReturns ==
  spc /= "stuck"

\* ------------------------------------------------------------------------
\* Shutdown: Gudgeon.Shutdown, engine.Shutdown
\* ------------------------------------------------------------------------
\* Gudgeon.Shutdown runs on the main goroutine after the signal; the
\* metrics worker and the callers of RecordQueryMetrics go on beside it.
\* recorder.shutdown is what engine.Shutdown calls; it is the Stop above.

ShutdownOthers == <<ruleVars, cacheVars, resVars, engineVars, dnsVars, metricsVars, counterVars, streamVars, consumerVars, emptyVars, textVars, lockVars, failVars, lastVars>>

\* database first, recorder afterwards
engineShutdownThen_DbFirst(s) ==
  CASE s = "engine" -> "db"
    [] s = "db" -> "recorder"
    [] s = "recorder" -> "done"

\* engine.Shutdown: the recorder, then the database
engineShutdownThen(s) ==
  CASE s = "engine" -> "recorder"
    [] s = "recorder" -> "db"
    [] s = "db" -> "done"

\* Gudgeon.Shutdown: the provider, the web service, the engine
ShutdownThen(s) ==
  CASE s = "running" -> "provider"
    [] s = "provider" -> "web"
    [] s = "web" -> "engine"
    [] OTHER -> engineShutdownThen(s)

Stopped(what) == stopLog' = Append(stopLog, what)

\* instance.Shutdown() after the signal
ShutdownCalled ==
  /\ gpc = "running"
  /\ gpc' = ShutdownThen(gpc)
  /\ UNCHANGED <<hasWeb, hasRecorder, hasDb, providerUp, webUp, engineDbOpen, stopLog>>
  /\ UNCHANGED ShutdownOthers

\* gudgeon.provider.Shutdown(): Start always sets the provider
ProviderShutdown ==
  /\ gpc = "provider"
  /\ providerUp' = FALSE
  /\ Stopped("provider")
  /\ gpc' = ShutdownThen(gpc)
  /\ UNCHANGED <<hasWeb, hasRecorder, hasDb, webUp, engineDbOpen>>
  /\ UNCHANGED ShutdownOthers

\* if gudgeon.web != nil { gudgeon.web.Stop() }
WebStop ==
  /\ gpc = "web"
  /\ IF hasWeb
     THEN webUp' = FALSE /\ Stopped("web")
     ELSE UNCHANGED <<webUp, stopLog>>
  /\ gpc' = ShutdownThen(gpc)
  /\ UNCHANGED <<hasWeb, hasRecorder, hasDb, providerUp, engineDbOpen>>
  /\ UNCHANGED ShutdownOthers

\* gudgeon.engine.Shutdown() is entered
EngineShutdown ==
  /\ gpc = "engine"
  /\ Stopped("engine")
  /\ gpc' = ShutdownThen(gpc)
  /\ UNCHANGED <<hasWeb, hasRecorder, hasDb, providerUp, webUp, engineDbOpen>>
  /\ UNCHANGED ShutdownOthers

\* if nil != engine.recorder { engine.recorder.shutdown() }: the call
RecorderShutdownCalled ==
  /\ gpc = "recorder"
  /\ hasRecorder
  /\ StopCalled

\* engine.recorder.shutdown() returns, or is skipped
RecorderShutdownReturns ==
  /\ gpc = "recorder"
  /\ IF hasRecorder
     THEN spc = "done" /\ Stopped("recorder")
     ELSE UNCHANGED stopLog
  /\ gpc' = ShutdownThen(gpc)
  /\ UNCHANGED <<hasWeb, hasRecorder, hasDb, providerUp, webUp, engineDbOpen>>
  /\ UNCHANGED ShutdownOthers

\* if nil != engine.db { engine.db.Close() }
EngineDbClose ==
  /\ gpc = "db"
  /\ IF hasDb
     THEN engineDbOpen' = FALSE /\ Stopped("db")
     ELSE UNCHANGED <<engineDbOpen, stopLog>>
  /\ gpc' = ShutdownThen(gpc)
  /\ UNCHANGED <<hasWeb, hasRecorder, hasDb, providerUp, webUp>>
  /\ UNCHANGED ShutdownOthers

InitShutdown ==
  /\ hasWeb \in BOOLEAN
  /\ hasRecorder \in BOOLEAN
  /\ hasDb \in BOOLEAN
  /\ gpc = "running"
  /\ providerUp = TRUE
  /\ webUp = hasWeb
  /\ engineDbOpen = hasDb
  /\ stopLog = <<>>
  /\ dbEnabled \in BOOLEAN
  /\ NewMetrics
  /\ IdleDns
  /\ listType = [l \in ListNames |-> "block"]
  /\ NewStore
  /\ IdleCache
  /\ IdleResolvers
  /\ IdleEngine
  /\ IdleCounters
  /\ IdleStream
  /\ IdleConsumers
  /\ IdleEmpty
  /\ IdleText
  /\ IdleLock
  /\ IdleFail
  /\ IdleLast

NextShutdown ==
  \/ \E g \in Goroutines : RecordQueryMetrics(g)
  \/ \E g \in Goroutines : SendCompletes(g)
  \/ WorkerStarts
  \/ TickerFires
  \/ PruneFires
  \/ FlushFires
  \/ WorkerRecords
  \/ WorkerTakesDone
  \/ WorkerAcknowledges
  \/ StopCloses
  \/ StopStep
  \/ ShutdownCalled
  \/ ProviderShutdown
  \/ WebStop
  \/ EngineShutdown
  \/ RecorderShutdownCalled
  \/ RecorderShutdownReturns
  \/ EngineDbClose

SpecShutdown == InitShutdown /\ [][NextShutdown]_vars

\* a comes before b in the log of what has been stopped
Before(a, b) ==
  \A j \in 1..Len(stopLog) :
    stopLog[j] = b => \E k \in 1..(j - 1) : stopLog[k] = a

\* the worker can still write
WorkerAlive == wpc \in {"new", "loop", "acking"}

\* C21: the DNS endpoints are stopped before the web service, the web
\* service before the engine; in the engine the recorder has made its final
\* flush and its worker has returned before a database handle is closed,
\* and nothing writes on a closed handle.
C21_ShutdownOrdered ==
  /\ Before("provider", "web")
  /\ Before("provider", "engine")
  /\ (hasWeb => Before("web", "engine"))
  /\ (hasRecorder => Before("recorder", "db"))
  /\ ((hasRecorder /\ hasDb /\ ~engineDbOpen) => (spc = "done" /\ ~WorkerAlive))
  /\ ((dbEnabled /\ ~metricsDbOpen) => (spc = "done" /\ ~WorkerAlive))
  /\ (spc \in {"insert", "prune", "flush"} => metricsDbOpen)

\* a full shutdown of a process with a web service, a recorder and both
\* databases, the worker having recorded
C21_Witness ==
  /\ gpc = "done"
  /\ stopLog = <<"provider", "web", "engine", "recorder", "db">>
  /\ dbEnabled
  /\ ~metricsDbOpen
  /\ ~engineDbOpen
  /\ lastWork = "record"

\* ------------------------------------------------------------------------
\* metrics: the counters, the metrics table, Stop and a new start
\* ------------------------------------------------------------------------
\* A counter name is the sequence of its words, and a key of metricsMap is
\* the prefix followed by the name. Time is counted in ticks, and every
\* reading of time.Now() is later than the one before. RetainTicks is
\* config.Metrics.Duration.

CounterOthers == <<ruleVars, cacheVars, resVars, engineVars, dnsVars, metricsVars, shutVars, streamVars, consumerVars, emptyVars, textVars, lockVars, failVars, lastVars>>

MetricsPrefix == <<"gudgeon">>
TotalQueries == <<"total", "session", "queries">>
TotalLifetimeQueries == <<"total", "lifetime", "queries">>
TotalIntervalQueries == <<"total", "interval", "queries">>
CachedQueries == <<"cached", "queries">>
BlockedQueries == <<"blocked", "session", "queries">>
BlockedLifetimeQueries == <<"blocked", "lifetime", "queries">>
BlockedIntervalQueries == <<"blocked", "interval", "queries">>
GoRoutines == <<"goroutines">>

\* the short names of the configured lists
ShortNames == {"ads"}

RulesSessionMatched(list) == <<"rules", "session", "matched", list>>
RulesLifetimeMatched(list) == <<"rules", "lifetime", "matched", list>>

\* strings.Contains(key, word)
Contains(key, word) == \E j \in 1..Len(key) : key[j] = word

MapPut(map, key, v) ==
  [k \in (DOMAIN map) \cup {key} |-> IF k = key THEN v ELSE map[k]]

\* metrics.Get(name): the counter of MetricsPrefix+name, made with count 0
\* when the map has none
Get(map, name) ==
  LET key == MetricsPrefix \o name
  IN  IF key \in DOMAIN map THEN map ELSE MapPut(map, key, 0)

\* metrics.Get(name).Value()
Value(map, name) == Get(map, name)[MetricsPrefix \o name]

\* metrics.Get(name).Set(v)
Set(map, name, v) == MapPut(Get(map, name), MetricsPrefix \o name, v)

\* metrics.Get(name).Inc(1)
Inc(map, name) == Set(map, name, Value(map, name) + 1)

\* metrics.Get(name).Clear()
Clear(map, name) == Set(map, name, 0)

\* what record reads of a handled query
MetricsInfos ==
  [cached : BOOLEAN, blocked : BOOLEAN, list : ShortNames \cup {"none"}]

\* metrics.record
record(map, info) ==
  LET total == Inc(Inc(Inc(map, TotalQueries), TotalLifetimeQueries), TotalIntervalQueries)
      cache == IF info.cached THEN Inc(total, CachedQueries) ELSE total
      block == Inc(Inc(Inc(cache, BlockedQueries), BlockedLifetimeQueries), BlockedIntervalQueries)
      list  == Inc(Inc(block, RulesSessionMatched(info.list)), RulesLifetimeMatched(info.list))
  IN  IF ~info.blocked THEN cache
      ELSE IF info.list = "none" THEN block
      ELSE list

\* metrics.update: the gauges
update(map, routines) == Set(map, GoRoutines, routines)

\* metrics.insert: the row written at currentTime
InsertedRow(map, from, currentTime) ==
  [FromTime |-> from, AtTime |-> currentTime, MetricsJson |-> map]

\* metrics.insert: the interval counters are cleared after the row is
\* written
AfterInsert(map) == Clear(Clear(map, TotalIntervalQueries), BlockedIntervalQueries)

\* metrics.prune at time t
prune(table, t) == {r \in table : ~(r.AtTime <= t - RetainTicks)}

\* every key of the row is loaded
Rehydrated_AnyKey(key) == TRUE

\* load takes the keys that have "lifetime" in them
Rehydrated(key) == Contains(key, "lifetime")

\* key[len(MetricsPrefix):]
StripPrefix(key) == SubSeq(key, Len(MetricsPrefix) + 1, Len(key))

RECURSIVE LoadKeys(_, _, _)
LoadKeys(map, data, keys) ==
  IF keys = {} THEN map
  ELSE LET key == CHOOSE k \in keys : TRUE
       IN  LoadKeys(IF Rehydrated(key)
                    THEN Set(map, StripPrefix(key), data[key])
                    ELSE map,
                    data, keys \ {key})

\* metrics.load: SELECT MetricsJson FROM metrics ORDER BY AtTime DESC
\* LIMIT 1, and the lifetime counters of that row
load(map, table) ==
  IF table = {} THEN map
  ELSE LET newest == CHOOSE r \in table : \A q \in table : q.AtTime <= r.AtTime
       IN  IF newest.MetricsJson = EmptyMap THEN map
           ELSE LoadKeys(map, newest.MetricsJson, DOMAIN newest.MetricsJson)

\* case info := <-metrics.metricsInfoChan: metrics.record(info)
CounterRecords(info) ==
  /\ mrun = "running"
  /\ recorded < MaxQueries
  /\ metricsMap' = record(metricsMap, info)
  /\ recorded' = recorded + 1
  /\ restarted' = FALSE
  /\ UNCHANGED <<metricsRows, mnow, lastInsert, mrun, atStop>>
  /\ UNCHANGED CounterOthers

\* case <-metrics.ticker.C: update and insert
CounterTicker(routines) ==
  /\ mrun = "running"
  /\ mnow < MaxMetricsTime
  /\ mnow' = mnow + 1
  /\ metricsRows' = metricsRows \cup {InsertedRow(update(metricsMap, routines), lastInsert, mnow')}
  /\ metricsMap' = AfterInsert(update(metricsMap, routines))
  /\ lastInsert' = mnow'
  /\ restarted' = FALSE
  /\ UNCHANGED <<mrun, atStop, recorded>>
  /\ UNCHANGED CounterOthers

\* case <-pruneTimer.C
CounterPrune ==
  /\ mrun = "running"
  /\ mnow < MaxMetricsTime
  /\ mnow' = mnow + 1
  /\ metricsRows' = prune(metricsRows, mnow')
  /\ UNCHANGED <<metricsMap, lastInsert, mrun, atStop, recorded, restarted>>
  /\ UNCHANGED CounterOthers

\* time passes, the process running or not
CounterClock ==
  /\ mnow < MaxMetricsTime
  /\ mnow' = mnow + 1
  /\ UNCHANGED <<metricsMap, metricsRows, lastInsert, mrun, atStop, recorded, restarted>>
  /\ UNCHANGED CounterOthers

\* metrics.Stop with a database, the worker having returned: the last
\* insert, prune, db.Close
CounterStop ==
  /\ mrun = "running"
  /\ mnow + 1 < MaxMetricsTime
  /\ mnow' = mnow + 2
  /\ atStop' = metricsMap
  /\ metricsRows' = prune(metricsRows \cup {InsertedRow(metricsMap, lastInsert, mnow + 1)}, mnow')
  /\ metricsMap' = AfterInsert(metricsMap)
  /\ lastInsert' = mnow + 1
  /\ mrun' = "stopped"
  /\ restarted' = FALSE
  /\ UNCHANGED recorded
  /\ UNCHANGED CounterOthers

\* New on the same database: a new map, load, prune, update
CounterNew(routines) ==
  /\ mrun = "stopped"
  /\ mnow < MaxMetricsTime
  /\ mnow' = mnow + 1
  /\ metricsMap' = update(load(EmptyMap, metricsRows), routines)
  /\ metricsRows' = prune(metricsRows, mnow')
  /\ lastInsert' = mnow'
  /\ mrun' = "running"
  /\ restarted' = TRUE
  /\ UNCHANGED <<atStop, recorded>>
  /\ UNCHANGED CounterOthers

InitCounters ==
  /\ IdleCounters
  /\ IdleShutdown
  /\ IdleStream
  /\ IdleConsumers
  /\ IdleEmpty
  /\ IdleText
  /\ IdleLock
  /\ IdleMetrics
  /\ IdleDns
  /\ listType = [l \in ListNames |-> "block"]
  /\ NewStore
  /\ IdleCache
  /\ IdleResolvers
  /\ IdleEngine
  /\ IdleFail
  /\ IdleLast

NextCounters ==
  \/ \E info \in MetricsInfos : CounterRecords(info)
  \/ \E routines \in {1, 2} : CounterTicker(routines)
  \/ CounterPrune
  \/ CounterClock
  \/ CounterStop
  \/ \E routines \in {1, 2} : CounterNew(routines)

SpecCounters == InitCounters /\ [][NextCounters]_vars


\* ---------------------------------------------------------------------
\* The windows of the metrics rows: insert with a database that may fail

TileOthers == <<ruleVars, cacheVars, resVars, engineVars, dnsVars, metricsVars, shutVars, streamVars, consumerVars, emptyVars, textVars, lockVars, failVars, keyVars, protoVars, tagVars>>

\* insert leaves lastInsert where it was
insert_KeepsLastInsert(map, table, last, currentTime, ok) ==
  IF ok
  THEN [map   |-> AfterInsert(map),
        table |-> table \cup {InsertedRow(map, last, currentTime)},
        last  |-> last]
  ELSE [map |-> map, table |-> table, last |-> last]

\* metrics.insert: the row covers [lastInsert, currentTime]; only after
\* Exec succeeded are the interval counters cleared and lastInsert moved;
\* every error returns before that
insert(map, table, last, currentTime, ok) ==
  IF ok
  THEN [map   |-> AfterInsert(map),
        table |-> table \cup {InsertedRow(map, last, currentTime)},
        last  |-> currentTime]
  ELSE [map |-> map, table |-> table, last |-> last]

\* history of the insert attempts
Attempted(last, currentTime, ok) ==
  /\ tiles' = IF ok THEN Append(tiles, [from |-> last, at |-> currentTime]) ELSE tiles
  /\ failedAt' = IF ok THEN failedAt ELSE failedAt \cup {currentTime}

\* case <-metrics.ticker.C: update, and insert when there is a database
TileTicker(routines, ok) ==
  /\ mrun = "running"
  /\ mnow < MaxMetricsTime
  /\ mnow' = mnow + 1
  /\ LET done == insert(update(metricsMap, routines), metricsRows, lastInsert, mnow', ok)
     IN  /\ metricsMap' = done.map
         /\ metricsRows' = done.table
         /\ lastInsert' = done.last
  /\ Attempted(lastInsert, mnow', ok)
  /\ restarted' = FALSE
  /\ UNCHANGED <<mrun, atStop, recorded, entries>>
  /\ UNCHANGED TileOthers

\* metrics.Stop with a database, the worker having returned: the last
\* insert, then prune
TileStop(ok) ==
  /\ mrun = "running"
  /\ mnow + 1 < MaxMetricsTime
  /\ mnow' = mnow + 2
  /\ atStop' = metricsMap
  /\ LET done == insert(metricsMap, metricsRows, lastInsert, mnow + 1, ok)
     IN  /\ metricsMap' = done.map
         /\ metricsRows' = prune(done.table, mnow')
         /\ lastInsert' = done.last
  /\ Attempted(lastInsert, mnow + 1, ok)
  /\ mrun' = "stopped"
  /\ restarted' = FALSE
  /\ UNCHANGED <<recorded, entries>>
  /\ UNCHANGED TileOthers

InitTile ==
  InitCounters

\* the queries recorded: not cached, matched by no list, blocked or not
TileInfos == {info \in MetricsInfos : ~info.cached /\ info.list = "none"}

NextTile ==
  \/ \E info \in TileInfos : CounterRecords(info)
  \/ \E routines \in {1}, ok \in BOOLEAN : TileTicker(routines, ok)
  \/ CounterPrune
  \/ CounterClock
  \/ \E ok \in BOOLEAN : TileStop(ok)

SpecTile == InitTile /\ [][NextTile]_vars

\* the interval counters of the map
IntervalCounters(map) ==
  <<Value(map, TotalIntervalQueries), Value(map, BlockedIntervalQueries)>>

\* C37: the rows insert wrote tile time: the first starts at the worker's
\* start, every later one where the one before it ended, and lastInsert
\* is the end of the last row written, so a failed insert leaves it where
\* it was and the next row covers the window the failed one left open; an
\* interval counter never goes down in a step that wrote no row
C37_RowsTileTime ==
  /\ [](/\ \A i \in 1..Len(tiles) :
             tiles[i].from = IF i = 1 THEN 0 ELSE tiles[i - 1].at
        /\ lastInsert = IF tiles = <<>> THEN 0 ELSE tiles[Len(tiles)].at)
  /\ [][Len(tiles') = Len(tiles) =>
          /\ lastInsert' = lastInsert
          /\ IntervalCounters(metricsMap')[1] >= IntervalCounters(metricsMap)[1]
          /\ IntervalCounters(metricsMap')[2] >= IntervalCounters(metricsMap)[2]]_vars
  /\ [][Len(tiles') = Len(tiles) + 1 =>
          IntervalCounters(metricsMap') = <<0, 0>>]_vars

\* a row was written after a failed insert with queries counted, and it
\* covers the time of the failure
C37_Witness ==
  /\ Len(tiles) >= 2
  /\ \E t \in failedAt :
       /\ tiles[Len(tiles)].from < t
       /\ t < tiles[Len(tiles)].at
  /\ \E r \in metricsRows :
       /\ r.FromTime = tiles[Len(tiles)].from
       /\ r.AtTime = tiles[Len(tiles)].at
       /\ Value(r.MetricsJson, TotalIntervalQueries) > 0


\* ---------------------------------------------------------------------
\* Reading the metrics rows back

\* SELECT ... FROM metrics WHERE FromTime >= start AND AtTime <= end
Selected(table, start, end) ==
  {r \in table : r.FromTime >= start /\ r.AtTime <= end}

\* ORDER BY AtTime ASC
RECURSIVE OrderByAtTime(_)
OrderByAtTime(rows) ==
  IF rows = {} THEN <<>>
  ELSE LET first == CHOOSE r \in rows : \A q \in rows : r.AtTime <= q.AtTime
       IN  <<first>> \o OrderByAtTime(rows \ {first})

\* rows.Scan(&me.AtTime, &me.FromTime, &metricsJsonString, ...) of a row
\* selected as FromTime, AtTime, MetricsJson, ...: the first column goes
\* to AtTime and the second to FromTime
Scan(row) ==
  [AtTime |-> row.FromTime, FromTime |-> row.AtTime, Values |-> row.MetricsJson]

\* metrics.query with the accumulator of Query: the entries appended
query(table, start, end) ==
  LET rows == OrderByAtTime(Selected(table, start, end))
  IN  [i \in 1..Len(rows) |-> Scan(rows[i])]

\* the times a caller asks for
QueryTimes == 0..MaxMetricsTime

\* metrics.Query(start, end) on the running instance, for a range
MetricsQuery(start, end) ==
  /\ mrun = "running"
  /\ start <= end
  /\ ~entries.asked
  /\ entries' = [asked |-> TRUE, rows |-> query(metricsRows, start, end)]
  /\ UNCHANGED <<tiles, failedAt>>
  /\ UNCHANGED counterVars
  /\ UNCHANGED TileOthers

NextQuery ==
  \/ \E routines \in {1}, ok \in BOOLEAN : TileTicker(routines, ok)
  \/ CounterPrune
  \/ CounterClock
  \/ \E ok \in BOOLEAN : TileStop(ok)
  \/ \E start \in QueryTimes, end \in QueryTimes : MetricsQuery(start, end)

SpecQuery == InitTile /\ [][NextQuery]_vars

\* C40: every entry Query returned has the FromTime and the AtTime of a
\* row that was written, hence FromTime <= AtTime
C40_ReadsBackWhatWasWritten ==
  \A i \in 1..Len(entries.rows) :
    /\ entries.rows[i].FromTime <= entries.rows[i].AtTime
    /\ \E k \in 1..Len(tiles) :
         /\ tiles[k].from = entries.rows[i].FromTime
         /\ tiles[k].at = entries.rows[i].AtTime


\* ---------------------------------------------------------------------
\* context.SourceUsed: what the sources of one resolver write to it

TagOthers == <<ruleVars, cacheVars, resVars, engineVars, dnsVars, metricsVars, shutVars, counterVars, streamVars, consumerVars, emptyVars, textVars, lockVars, failVars, keyVars, protoVars, windowVars>>

\* the hostfile and remote sources of the resolver
TagSources ==
  {HostFile, [kind |-> "hostfile", name |-> "extra"],
   Remote, [kind |-> "dns", name |-> "10.0.0.54:53"]}

\* the source lists of the resolver: at least one source, none twice
TagChains ==
  {l \in UNION {[1..n -> TagSources] : n \in 1..MaxSources} :
     \A i, j \in 1..Len(l) : l[i] = l[j] => i = j}

\* the question types asked: one a hostfile answers, one it does not
QuestionTypes == {"A", "MX"}

\* source.Name()
Name(source) ==
  IF source.kind = "hostfile" THEN "hostfile:" \o source.name ELSE source.name

\* what a source writes to SourceUsed when it tags the context
Tagged(source) ==
  IF source.kind = "hostfile" THEN Name(source) ELSE Name(source) \o "/udp"

\* the source the resolver is asking
TagAsked == tag.chain[tag.idx]

\* a request comes to the resolver with a new resolution context
TagBegins(chain, knows, qType) ==
  /\ tag.pc = "none"
  /\ tag' = [pc |-> "ask", chain |-> chain, knows |-> knows, qType |-> qType,
             idx |-> 1, response |-> NilResponse, by |-> 0, Source |-> ""]
  /\ SourceUsed' = ""
  /\ UNCHANGED TagOthers

\* hostFileSource.Answer: context.SourceUsed = hostFileSource.Name(),
\* whatever the response holds
hostFileTags(source, response, used) ==
  Name(source)

\* hostFileSource.Answer: nil for a type it does not answer; else a
\* response, with records when the file has the name, and the tag
TagHostfileAnswers ==
  /\ tag.pc = "ask"
  /\ TagAsked.kind = "hostfile"
  /\ IF tag.qType /= "A"
     THEN /\ tag' = [tag EXCEPT !.pc = "answered", !.response = NilResponse]
          /\ UNCHANGED SourceUsed
     ELSE LET response == IF TagAsked.name \in tag.knows THEN "host" ELSE "empty"
          IN  /\ tag' = [tag EXCEPT !.pc = "answered", !.response = response]
              /\ SourceUsed' = hostFileTags(TagAsked, response, SourceUsed)
  /\ UNCHANGED TagOthers

\* dnsSource.Answer: the tag is written for a response that is not empty
\* when SourceUsed is still empty
dnsTags(source, response, used) ==
  IF response = "dns" /\ used = "" THEN Name(source) \o "/udp" ELSE used

\* dnsSource.Answer: nil (asleep, no recursion, an error), or the response
\* of the server, and the tag
TagDnsAnswers(response) ==
  /\ tag.pc = "ask"
  /\ TagAsked.kind = "dns"
  /\ tag' = [tag EXCEPT !.pc = "answered", !.response = response]
  /\ SourceUsed' = IF response = NilResponse THEN SourceUsed
                   ELSE dnsTags(TagAsked, response, SourceUsed)
  /\ UNCHANGED TagOthers

\* the resolver: the first response that is not empty wins, else the next
\* source is asked; answerWithContext returns the result with
\* Source: context.SourceUsed
TagResolverTakes ==
  /\ tag.pc = "answered"
  /\ tag' = IF tag.response \in {"host", "dns"}
            THEN [tag EXCEPT !.pc = "done", !.by = tag.idx, !.Source = SourceUsed]
            ELSE IF tag.idx < Len(tag.chain)
            THEN [tag EXCEPT !.pc = "ask", !.idx = tag.idx + 1]
            ELSE [tag EXCEPT !.pc = "done", !.Source = SourceUsed]
  /\ UNCHANGED SourceUsed
  /\ UNCHANGED TagOthers

InitTag ==
  InitCounters

NextTag ==
  \/ \E chain \in TagChains, knows \in SUBSET {"hosts", "extra"}, qType \in QuestionTypes :
       TagBegins(chain, knows, qType)
  \/ TagHostfileAnswers
  \/ \E response \in dnsSourceAnswers : TagDnsAnswers(response)
  \/ TagResolverTakes

SpecTag == InitTag /\ [][NextTag]_vars

\* C38: when the resolver returns a response that is not empty, the Source
\* of the result names the source that produced it
C38_SourceNamesProducer ==
  (tag.pc = "done" /\ tag.by /= 0) => tag.Source = Tagged(tag.chain[tag.by])

\* the count of a key, 0 for a key the map does not have
CountOf(map, key) == IF key \in DOMAIN map THEN map[key] ELSE 0

StreamOthers == <<ruleVars, cacheVars, resVars, engineVars, dnsVars, metricsVars, shutVars,
                  counterVars, consumerVars, emptyVars, textVars, lockVars, failVars, lastVars>>

RowIds == {"r1", "r2"}

Tables == UNION {[1..n -> RowIds] : n \in 0..MaxRows}

Faults == {"count", "select", "scan"}

CountSent(n) == [chan |-> "count", count |-> n, row |-> "none"]
RowSent(r) == [chan |-> "info", count |-> 0, row |-> r]

\* the accumulator of QueryStream: the count goes out on the first call
accumulator(count, info, sending) == sending

\* qlog.QueryStream is called; qlog.query returns at once without a
\* database handle
QueryStream(db, table, faults) ==
  /\ spos = "idle"
  /\ qlogDb' = db
  /\ qTable' = table
  /\ qFaults' = faults
  /\ spos' = IF db THEN "count" ELSE "close"
  /\ sendingCount' = TRUE
  /\ UNCHANGED <<sidx, streamLog, countClosed, rowsClosed>>
  /\ UNCHANGED StreamOthers

\* QueryRow(countStmt).Scan(&resultLen), then accumulator(resultLen, nil)
QueryCounts ==
  /\ spos = "count"
  /\ LET resultLen == IF "count" \in qFaults THEN 0 ELSE Len(qTable)
     IN  IF accumulator(resultLen, "nil", sendingCount)
         THEN /\ streamLog' = Append(streamLog, CountSent(resultLen))
              /\ countClosed' = TRUE
              /\ sendingCount' = FALSE
         ELSE UNCHANGED <<streamLog, countClosed, sendingCount>>
  /\ spos' = "select"
  /\ UNCHANGED <<qlogDb, qTable, qFaults, sidx, rowsClosed>>
  /\ UNCHANGED StreamOthers

\* qlog.db.Query(selectStmt): query returns when it fails
QuerySelects ==
  /\ spos = "select"
  /\ spos' = IF "select" \in qFaults THEN "close" ELSE "rows"
  /\ UNCHANGED <<qlogDb, qTable, qFaults, sidx, sendingCount, streamLog, countClosed, rowsClosed>>
  /\ UNCHANGED StreamOthers

\* rows.Next(), rows.Scan, accumulator(resultLen, info); the scan of the
\* first row fails with the fault "scan" and the row is passed over
QueryScans ==
  /\ spos = "rows"
  /\ sidx < Len(qTable)
  /\ sidx' = sidx + 1
  /\ IF "scan" \in qFaults /\ sidx = 0
     THEN UNCHANGED <<streamLog, countClosed, sendingCount>>
     ELSE LET info == qTable[sidx + 1]
              first == accumulator(Len(qTable), info, sendingCount)
              count == IF first THEN <<CountSent(Len(qTable))>> ELSE <<>>
          IN  /\ streamLog' = streamLog \o count \o <<RowSent(info)>>
              /\ countClosed' = (countClosed \/ first)
              /\ sendingCount' = (sendingCount /\ ~first)
  /\ UNCHANGED <<qlogDb, qTable, qFaults, spos, rowsClosed>>
  /\ UNCHANGED StreamOthers

\* rows.Next() is false: query returns
QueryEnds ==
  /\ spos = "rows"
  /\ sidx = Len(qTable)
  /\ spos' = "close"
  /\ UNCHANGED <<qlogDb, qTable, qFaults, sidx, sendingCount, streamLog, countClosed, rowsClosed>>
  /\ UNCHANGED StreamOthers

\* close(infoChan), and QueryStream returns
StreamCloses ==
  /\ spos = "close"
  /\ rowsClosed' = TRUE
  /\ spos' = "returned"
  /\ UNCHANGED <<qlogDb, qTable, qFaults, sidx, sendingCount, streamLog, countClosed>>
  /\ UNCHANGED StreamOthers

InitStream ==
  /\ IdleStream
  /\ IdleConsumers
  /\ IdleEmpty
  /\ IdleText
  /\ IdleLock
  /\ IdleCounters
  /\ IdleShutdown
  /\ IdleMetrics
  /\ IdleDns
  /\ listType = [l \in ListNames |-> "block"]
  /\ NewStore
  /\ IdleCache
  /\ IdleResolvers
  /\ IdleEngine
  /\ IdleFail
  /\ IdleLast

NextStream ==
  \/ \E db \in BOOLEAN, table \in Tables, faults \in SUBSET Faults :
       QueryStream(db, table, faults)
  \/ QueryCounts
  \/ QuerySelects
  \/ QueryScans
  \/ QueryEnds
  \/ StreamCloses

SpecStream == InitStream /\ [][NextStream]_vars

\* the rows sent, in the order they were sent
RECURSIVE RowsOf(_)
RowsOf(log) ==
  IF log = <<>> THEN <<>>
  ELSE IF Head(log).chan = "info" THEN <<Head(log).row>> \o RowsOf(Tail(log))
  ELSE RowsOf(Tail(log))

\* the rows of the result the call could scan
Scanned ==
  IF "select" \in qFaults THEN <<>>
  ELSE IF "scan" \in qFaults /\ Len(qTable) > 0 THEN Tail(qTable)
  ELSE qTable

\* one count, and before every row
CountFirst(log) ==
  /\ Len(log) > 0
  /\ log[1].chan = "count"
  /\ \A j \in 2..Len(log) : log[j].chan = "info"

\* C23: when QueryStream has returned, with or without a database handle
\* and whatever failed, one count was sent and before every row, the rows
\* followed in result order, and both channels are closed.
C23_StreamClosed ==
  spos = "returned" =>
    /\ CountFirst(streamLog)
    /\ RowsOf(streamLog) = Scanned
    /\ countClosed
    /\ rowsClosed

\* ------------------------------------------------------------------------
\* rule: a text rule and IsMatch
\* ------------------------------------------------------------------------
\* A rule text and a domain are sequences of labels. Create makes a text
\* rule of a text that is not complex; the tests give what IsMatch returns.

TextOthers == <<ruleVars, cacheVars, resVars, engineVars, dnsVars, metricsVars, shutVars,
                counterVars, streamVars, consumerVars, emptyVars, lockVars, failVars, lastVars>>

TestLabels == {"google", "yahoo", "mail", "com"}

\* the domains and rule texts of the tests, and their like
TestDomains == UNION {[1..n -> TestLabels] : n \in 1..(MaxLabels + 1)}

\* the data of TestTextRuleMatching with mail.google.com not expected
TextRuleData_ExactOnly ==
  { [domain |-> <<"google", "com">>, expected |-> TRUE],
    [domain |-> <<"yahoo", "com">>, expected |-> FALSE],
    [domain |-> <<"mail", "google", "com">>, expected |-> FALSE] }

\* the data of TestTextRuleMatching, for the rule google.com
TextRuleData ==
  { [domain |-> <<"google", "com">>, expected |-> TRUE],
    [domain |-> <<"yahoo", "com">>, expected |-> FALSE],
    [domain |-> <<"mail", "google", "com">>, expected |-> TRUE] }

\* rule.IsMatch of a text rule: the text itself, or a name that ends with
\* "." and the text
IsMatch(text, domain) ==
  \/ text = domain
  \/ \E i \in 2..Len(domain) : SubSeq(domain, i, Len(domain)) = text

\* rule := Create(text); rule.IsMatch(d.domain), for one domain of the data
testRuleMatching(domain) ==
  /\ sample = <<>>
  /\ sample' = domain
  /\ isMatch' = IsMatch(created, domain)
  /\ UNCHANGED created
  /\ UNCHANGED TextOthers

InitText ==
  /\ created \in TestDomains
  /\ sample = <<>>
  /\ isMatch = FALSE
  /\ IdleLock
  /\ IdleEmpty
  /\ IdleConsumers
  /\ IdleStream
  /\ IdleCounters
  /\ IdleShutdown
  /\ IdleMetrics
  /\ IdleDns
  /\ listType = [l \in ListNames |-> "block"]
  /\ NewStore
  /\ IdleCache
  /\ IdleResolvers
  /\ IdleEngine
  /\ IdleFail
  /\ IdleLast

NextText == \E domain \in TestDomains : testRuleMatching(domain)

SpecText == InitText /\ [][NextText]_vars

\* d is a subdomain of the text: labels in front of it
Subdomain(d, text) ==
  \E front \in TestDomains : d = front \o text

LockOthers == <<ruleVars, cacheVars, resVars, engineVars, dnsVars, metricsVars, shutVars,
                counterVars, streamVars, consumerVars, emptyVars, textVars, failVars, lastVars>>

Worker == "g1"

\* the call of goroutine g goes to pc, holding the counter got
GetterAt(g, pc, name, got) ==
  getters' = [getters EXCEPT ![g] = [pc |-> pc, name |-> name, got |-> got]]

\* metrics.Get(name): metricsMutex.RLock()
GetRLock(g, name) ==
  /\ getters[g].pc = "idle"
  /\ ~rwMutex.writer
  /\ rwMutex' = [rwMutex EXCEPT !.readers = @ + 1]
  /\ GetterAt(g, "rlocked", name, NoMetric)
  /\ UNCHANGED <<lockedMap, heap, gave, incsDone>>
  /\ UNCHANGED LockOthers

\* if metric, found := metricsMap[key]; found: deferred RUnlock, return
GetFound(g) ==
  /\ getters[g].pc = "rlocked"
  /\ lockedMap[getters[g].name] /= NoMetric
  /\ rwMutex' = [rwMutex EXCEPT !.readers = @ - 1]
  /\ GetterAt(g, "returned", getters[g].name, lockedMap[getters[g].name])
  /\ gave' = [gave EXCEPT ![getters[g].name] = @ \cup {lockedMap[getters[g].name]}]
  /\ UNCHANGED <<lockedMap, heap, incsDone>>
  /\ UNCHANGED LockOthers

\* not found: metricsMutex.RUnlock()
GetMiss(g) ==
  /\ getters[g].pc = "rlocked"
  /\ lockedMap[getters[g].name] = NoMetric
  /\ rwMutex' = [rwMutex EXCEPT !.readers = @ - 1]
  /\ GetterAt(g, "unlocked", getters[g].name, NoMetric)
  /\ UNCHANGED <<lockedMap, heap, gave, incsDone>>
  /\ UNCHANGED LockOthers

\* metricsMutex.Lock()
GetLock(g) ==
  /\ getters[g].pc = "unlocked"
  /\ ~rwMutex.writer
  /\ rwMutex.readers = 0
  /\ rwMutex' = [rwMutex EXCEPT !.writer = TRUE]
  /\ GetterAt(g, "locked", getters[g].name, NoMetric)
  /\ UNCHANGED <<lockedMap, heap, gave, incsDone>>
  /\ UNCHANGED LockOthers

\* metric := &Metric{Count: 0}; metricsMap[key] = metric; deferred Unlock,
\* return
GetCreate(g) ==
  /\ getters[g].pc = "locked"
  /\ heap' = Append(heap, 0)
  /\ lockedMap' = [lockedMap EXCEPT ![getters[g].name] = Len(heap) + 1]
  /\ rwMutex' = [rwMutex EXCEPT !.writer = FALSE]
  /\ GetterAt(g, "returned", getters[g].name, Len(heap) + 1)
  /\ gave' = [gave EXCEPT ![getters[g].name] = @ \cup {Len(heap) + 1}]
  /\ UNCHANGED incsDone
  /\ UNCHANGED LockOthers

\* metrics.Get(name).Inc(1) in record: the worker adds to the counter it
\* got
WorkerIncs ==
  /\ getters[Worker].pc = "returned"
  /\ incsDone[getters[Worker].name] < MaxQueries
  /\ heap' = [heap EXCEPT ![getters[Worker].got] = @ + 1]
  /\ incsDone' = [incsDone EXCEPT ![getters[Worker].name] = @ + 1]
  /\ GetterAt(Worker, "idle", getters[Worker].name, NoMetric)
  /\ UNCHANGED <<lockedMap, rwMutex, gave>>
  /\ UNCHANGED LockOthers

\* another task has read the counter it got
ReaderDone(g) ==
  /\ g /= Worker
  /\ getters[g].pc = "returned"
  /\ GetterAt(g, "idle", getters[g].name, NoMetric)
  /\ UNCHANGED <<lockedMap, heap, rwMutex, gave, incsDone>>
  /\ UNCHANGED LockOthers

InitLock ==
  /\ IdleLock
  /\ IdleText
  /\ IdleEmpty
  /\ IdleConsumers
  /\ IdleStream
  /\ IdleCounters
  /\ IdleShutdown
  /\ IdleMetrics
  /\ IdleDns
  /\ listType = [l \in ListNames |-> "block"]
  /\ NewStore
  /\ IdleCache
  /\ IdleResolvers
  /\ IdleEngine
  /\ IdleFail
  /\ IdleLast

NextLock ==
  \/ \E g \in Goroutines, name \in LockedNames : GetRLock(g, name)
  \/ \E g \in Goroutines : GetFound(g)
  \/ \E g \in Goroutines : GetMiss(g)
  \/ \E g \in Goroutines : GetLock(g)
  \/ \E g \in Goroutines : GetCreate(g)
  \/ WorkerIncs
  \/ \E g \in Goroutines : ReaderDone(g)

SpecLock == InitLock /\ [][NextLock]_vars

\* C28: whatever the interleaving of the worker with Get calls of other
\* tasks, every Get of one name returns the same counter, and the counter
\* of the map holds every increment the worker has made.
C28_NoLostIncrement ==
  \A name \in LockedNames :
    /\ Cardinality(gave[name]) <= 1
    /\ lockedMap[name] /= NoMetric => heap[lockedMap[name]] = incsDone[name]

\* ------------------------------------------------------------------------
\* sqlStore
\* ------------------------------------------------------------------------

InitRule ==
  /\ listType \in [ListNames -> TypeStrings]
  /\ NewStore
  /\ IdleCache
  /\ IdleResolvers
  /\ IdleEngine
  /\ IdleDns
  /\ IdleMetrics
  /\ IdleLater

\* sqlStore.Init: opens the database and inserts the short name of every
\* list given
StoreInit(ls) ==
  /\ phase = "new"
  /\ phase' = "loading"
  /\ lists' = ls
  /\ UNCHANGED <<listType, rules_initial, rules, txOpen, txRows, loaded, fm>>
  /\ UNCHANGED <<cacheVars, resVars, engineVars, dnsVars, metricsVars, laterVars>>

\* sqlStore.Load: begins the transaction when there is none and inserts the
\* row (list row id by short name, rule) into rules_initial. The loader
\* loads the lists it gave to Init.
Load(list, rule) ==
  /\ phase = "loading"
  /\ list \in lists
  /\ Cardinality(loaded) < MaxLoads
  /\ txOpen' = TRUE
  /\ txRows' = txRows \cup {<<list, rule>>}
  /\ loaded' = loaded \cup {<<list, rule>>}
  /\ UNCHANGED <<listType, phase, lists, rules_initial, rules, fm>>
  /\ UNCHANGED <<cacheVars, resVars, engineVars, dnsVars, metricsVars, laterVars>>

\* the rows Finalize moves: INSERT INTO rules SELECT ... FROM rules_initial
MovedRows(initial) == initial

\* sqlStore.Finalize: commits the load transaction, moves rules_initial
\* into rules, empties rules_initial and reopens the database read-only
Finalize ==
  /\ phase = "loading"
  /\ LET committed == IF txOpen THEN rules_initial \cup txRows ELSE rules_initial
     IN /\ rules' = rules \cup MovedRows(committed)
        /\ rules_initial' = {}
  /\ txOpen' = FALSE
  /\ txRows' = {}
  /\ phase' = "final"
  /\ UNCHANGED <<listType, lists, loaded, fm>>
  /\ UNCHANGED <<cacheVars, resVars, engineVars, dnsVars, metricsVars, laterVars>>

\* a statement without the condition on the short names
SelectRows_AnyList(tblLists, tblRules, shortNames, domains) ==
  {row \in tblRules : row[1] \in tblLists /\ row[2] \in SeqRange(domains)}

\* the rows of:  SELECT l.ShortName, r.Rule FROM rules R LEFT JOIN lists L
\*   ON R.ListRowId = L.rowid WHERE l.ShortName in (..) AND r.Rule in (..)
SelectRows(tblLists, tblRules, shortNames, domains) ==
  {row \in tblRules : /\ row[1] \in tblLists
                      /\ row[1] \in shortNames
                      /\ row[2] \in SeqRange(domains)}

\* sqlStore.foundInLists: every (found, list, rule) it can return. The
\* rows come in the order the database chooses; the first one whose rule
\* is not "" is returned.
foundInLists(tblLists, tblRules, ls, domains) ==
  IF ls = {} \/ Len(domains) < 1
  THEN {[found |-> FALSE, list |-> NoList, rule |-> <<>>]}
  ELSE LET rows == {row \in SelectRows(tblLists, tblRules, ls, domains) : row[2] /= <<>>}
       IN IF rows = {}
          THEN {[found |-> FALSE, list |-> NoList, rule |-> <<>>]}
          ELSE {[found |-> TRUE, list |-> row[1], rule |-> row[2]] : row \in rows}

\* the split of the candidate lists by type
allowLists(types, ls) == {l \in ls : ParseType(types[l]) = "ALLOW"}
blockLists(types, ls) == {l \in ls : ParseType(types[l]) /= "ALLOW"}

\* sqlStore.FindMatch: every (match, list, rule) it can return
FindMatchResults(dbOpen, types, tblLists, tblRules, ls, domain) ==
  IF ~dbOpen
  THEN {[match |-> "none", list |-> NoList, rule |-> <<>>]}
  ELSE LET domains == DomainList(domain)
           allow == foundInLists(tblLists, tblRules, allowLists(types, ls), domains)
           block == foundInLists(tblLists, tblRules, blockLists(types, ls), domains)
       IN IF \E a \in allow : a.found
          THEN {[match |-> "allow", list |-> a.list, rule |-> a.rule] : a \in allow}
          ELSE IF \E b \in block : b.found
               THEN {[match |-> "block", list |-> b.list, rule |-> b.rule] : b \in block}
               ELSE {[match |-> "none", list |-> NoList, rule |-> <<>>]}

\* The engine builds the store before it serves: no lookup runs between
\* Init and Finalize.
FindMatch(ls, domain) ==
  /\ phase /= "loading"
  /\ \E r \in FindMatchResults(phase /= "new", listType, lists, rules, ls, domain) :
       fm' = [op |-> "FindMatch", final |-> (phase = "final"),
              lists |-> ls, domain |-> domain,
              match |-> r.match, list |-> r.list, rule |-> r.rule]
  /\ UNCHANGED <<listType, phase, lists, rules_initial, rules, txOpen, txRows, loaded>>
  /\ UNCHANGED <<cacheVars, resVars, engineVars, dnsVars, metricsVars, laterVars>>

\* what a rolled-back transaction still holds: its rows
Rollback_KeepsRows(rows) == rows

\* store.tx.Rollback(): what the transaction still holds
Rollback(rows) == {}

\* sqlStore.Load when the insert fails: the transaction, begun when there
\* was none, is rolled back with every row loaded in it, and store.tx is
\* nil again. One load of a build fails.
LoadFails(list, rule) ==
  /\ phase = "loading"
  /\ list \in lists
  /\ rolledBack = {}
  /\ txRows' = Rollback(txRows)
  /\ txOpen' = (txRows' /= {})
  /\ loaded' = loaded \ txRows
  /\ rolledBack' = rolledBack \cup txRows \cup {<<list, rule>>}
  /\ UNCHANGED <<listType, phase, lists, rules_initial, rules, fm>>
  /\ UNCHANGED <<cacheVars, resVars, engineVars, dnsVars, metricsVars, shutVars, counterVars,
                 streamVars, consumerVars, emptyVars, textVars, lockVars, lastVars>>

NextRule ==
  \/ \E ls \in SUBSET ListNames : StoreInit(ls)
  \/ \E l \in ListNames, r \in RuleTexts : Load(l, r)
  \/ Finalize
  \/ \E ls \in SUBSET ListNames, d \in Domains : FindMatch(ls, d)

SpecRule == InitRule /\ [][NextRule]_vars

\* the rules of the lists loaded while the database fails: a name and a
\* subdomain of it
FailingRules == {<<"a">>, <<"b", "a">>}

\* the store built with loads that fail, then serving. FindMatch leaves
\* the store as it is, so one lookup shows what every lookup returns.
NextRuleFail ==
  \/ \E ls \in SUBSET ListNames : StoreInit(ls)
  \/ \E l \in ListNames, r \in FailingRules : Load(l, r)
  \/ \E l \in ListNames, r \in FailingRules : LoadFails(l, r)
  \/ Finalize
  \/ \E ls \in SUBSET ListNames, d \in Domains :
       phase = "final" /\ fm = NoCall /\ FindMatch(ls, d)

SpecRuleFail == InitRule /\ [][NextRuleFail]_vars

\* sqlStore.Finalize when the statement that moves rules_initial into rules
\* fails: the error is logged and Finalize goes on, so the DELETE of
\* rules_initial runs all the same (and empties the table unless it fails
\* too), the transaction is committed and the database reopened read-only
FinalizeMoveFails(deleteFails) ==
  /\ phase = "loading"
  /\ LET committed == IF txOpen THEN rules_initial \cup txRows ELSE rules_initial
     IN rules_initial' = IF deleteFails THEN committed ELSE {}
  /\ txOpen' = FALSE
  /\ txRows' = {}
  /\ phase' = "final"
  /\ UNCHANGED <<listType, lists, rules, loaded, fm>>
  /\ UNCHANGED <<cacheVars, resVars, engineVars, dnsVars, metricsVars, laterVars>>

\* the store built while the database may fail in Finalize, then serving
NextRuleMove ==
  \/ \E ls \in SUBSET ListNames : StoreInit(ls)
  \/ \E l \in ListNames, r \in FailingRules : Load(l, r)
  \/ Finalize
  \/ \E deleteFails \in BOOLEAN : FinalizeMoveFails(deleteFails)
  \/ \E ls \in SUBSET ListNames, d \in Domains :
       phase = "final" /\ fm = NoCall /\ FindMatch(ls, d)

SpecRuleMove == InitRule /\ [][NextRuleMove]_vars

\* ------------------------------------------------------------------------
\* C1: on a finalized store FindMatch(L, D) returns allow iff an allow list
\* of L holds a rule equal to a suffix of D, otherwise block iff a block
\* list of L holds one, otherwise none; a result other than none names a
\* list of L of the matching type and a suffix of D which that list holds.
\* ------------------------------------------------------------------------

Suffixes(d) == {SubSeq(d, i, Len(d)) : i \in 1..Len(d)}

Holds(l, r) == <<l, r>> \in loaded

AllowHit(ls, d) ==
  \E l \in ls : listType[l] = "allow" /\ \E s \in Suffixes(d) : Holds(l, s)

BlockHit(ls, d) ==
  \E l \in ls : listType[l] /= "allow" /\ \E s \in Suffixes(d) : Holds(l, s)

C1_FindMatchVerdict ==
  (fm.op = "FindMatch" /\ fm.final) =>
    /\ (fm.match = "allow") <=> AllowHit(fm.lists, fm.domain)
    /\ (fm.match = "block") <=> (~AllowHit(fm.lists, fm.domain) /\ BlockHit(fm.lists, fm.domain))
    /\ fm.match \in {"allow", "block", "none"}
    /\ fm.match /= "none" =>
         /\ fm.list \in fm.lists
         /\ (listType[fm.list] = "allow") <=> (fm.match = "allow")
         /\ fm.rule \in Suffixes(fm.domain)
         /\ Holds(fm.list, fm.rule)
    /\ fm.match = "none" => (fm.list = NoList /\ fm.rule = <<>>)

\* an allow list and a block list both hold a suffix of D, and allow won
C1_Witness ==
  /\ fm.op = "FindMatch"
  /\ fm.final
  /\ fm.match = "allow"
  /\ BlockHit(fm.lists, fm.domain)
  /\ Len(fm.rule) < Len(fm.domain)

\* ------------------------------------------------------------------------
\* The hash store, alone and with the sqlStore as its delegate
\* ------------------------------------------------------------------------
\* The hash store keeps, per list, the set of the text rules loaded into
\* it; with a delegate it hands the text rules and the lookups of text
\* rules to the delegate. The candidate lists come as a slice.

\* the order of the lists in the configuration
ListOrder == <<"l1", "l2">>

\* the candidate lists of one type, in order
Candidates(types, ls, allow) ==
  SelectSeq(ListOrder,
            LAMBDA l : l \in ls /\ ((ParseType(types[l]) = "ALLOW") = allow))

\* the hash store looks a list at a time, the longest parent domain first
hashFound(held, candidates, domains) ==
  LET hits == {h \in (1..Len(candidates)) \X (1..Len(domains)) :
                 <<candidates[h[1]], domains[h[2]]>> \in held}
  IN  IF hits = {}
      THEN [found |-> FALSE, list |-> NoList, rule |-> <<>>]
      ELSE LET first == CHOOSE h \in hits :
                          \A g \in hits : h[1] < g[1] \/ (h[1] = g[1] /\ h[2] <= g[2])
           IN  [found |-> TRUE, list |-> candidates[first[1]], rule |-> domains[first[2]]]

\* hashStore.FindMatch without a delegate
hashFindMatch(types, held, ls, domain) ==
  LET domains == DomainList(domain)
      allow == hashFound(held, Candidates(types, ls, TRUE), domains)
      block == hashFound(held, Candidates(types, ls, FALSE), domains)
  IN  IF allow.found THEN [match |-> "allow", list |-> allow.list, rule |-> allow.rule]
      ELSE IF block.found THEN [match |-> "block", list |-> block.list, rule |-> block.rule]
      ELSE [match |-> "none", list |-> NoList, rule |-> <<>>]

Lost == rolledBack \ loaded

\* C29: after a Load has failed and its transaction was rolled back, the
\* store goes on: Finalize leaves exactly the rows of the committed loads
\* in rules, FindMatch finds a rule for every name a committed rule of a
\* candidate list covers, and never a row that was rolled back.
C29_RollbackKeepsUsable ==
  /\ phase = "final" =>
       /\ rules = loaded
       /\ rules \cap Lost = {}
       /\ ~txOpen
  /\ (fm.op = "FindMatch" /\ fm.final) =>
       /\ (AllowHit(fm.lists, fm.domain) \/ BlockHit(fm.lists, fm.domain)) => fm.match /= "none"
       /\ fm.match /= "none" =>
            /\ <<fm.list, fm.rule>> \in loaded
            /\ <<fm.list, fm.rule>> \notin Lost

\* a load failed and took an earlier row with it, a later load was
\* committed, and the name is matched by the later rule though the lost
\* row covers it as well
C29_Witness ==
  /\ fm.op = "FindMatch"
  /\ fm.final
  /\ fm.match /= "none"
  /\ Cardinality(Lost) >= 2
  /\ \E row \in Lost :
       /\ row[1] \in fm.lists
       /\ row[2] \in Suffixes(fm.domain)
       /\ row[2] /= fm.rule

\* C36: after Finalize every rule whose Load was committed is matched by
\* FindMatch, also when the move of rules_initial into rules has failed,
\* and no committed row is lost: it is in rules, or still in rules_initial.
C36_FinalizeKeepsRules ==
  /\ phase = "final" => \A row \in loaded : row \in rules \/ row \in rules_initial
  /\ (fm.op = "FindMatch" /\ fm.final) =>
       ((AllowHit(fm.lists, fm.domain) \/ BlockHit(fm.lists, fm.domain)) => fm.match /= "none")

\* ------------------------------------------------------------------------
\* C6: every record of a message returned by a cache hit at t1, for an
\* entry stored at t0, has TTL = max(0, ttl_in - floor(t1 - t0)), ttl_in
\* being the TTL the record was stored with.
\* ------------------------------------------------------------------------

Decayed(ttlIn, storedAt, at) ==
  LET delta == (at - storedAt) \div TicksPerSecond
  IN IF ttlIn > delta THEN ttlIn - delta ELSE 0

C6_TtlDecay ==
  (cop.op = "Query" /\ cop.hit) =>
    /\ Len(cop.message.answer) = Len(cop.stored.answer)
    /\ \A i \in 1..Len(cop.message.answer) :
         cop.message.answer[i].ttl = Decayed(cop.stored.answer[i].ttl, cop.storedAt, cop.at)

\* ------------------------------------------------------------------------
\* C7: a message returned by a cache hit has the id of the request of that
\* Query call, whatever ids earlier requests hitting the entry had.
\* ------------------------------------------------------------------------

C7_IdOfRequest ==
  (cop.op = "Query" /\ cop.hit) => cop.message.id = cop.request.id

\* the entry is hit by a request whose id differs from the id of the
\* request that hit it just before, and from the id of the stored response
C7_Witness ==
  /\ cop.op = "Query"
  /\ cop.hit
  /\ cop.prevHit \notin {0, cop.request.id}
  /\ cop.stored.id /= cop.request.id

\* ------------------------------------------------------------------------
\* C30: a cache hit at t1 returns an entry stored at t0 only while
\* t1 - t0 <= T, T being the least TTL of the answer records of the stored
\* response and at most 604800 s, so a Query made later misses; the map
\* keeps an entry for exactly T; a response whose T is 0 is not stored and
\* Store returns false.
\* ------------------------------------------------------------------------

\* T of a response that has an answer
LeastTtl(response) ==
  LET ttls == {response.answer[i].ttl : i \in 1..Len(response.answer)}
      least == CHOOSE t \in ttls : \A u \in ttls : t <= u
  IN IF least <= dnsMaxTtl THEN least ELSE dnsMaxTtl

C30_NeverStale ==
  /\ (cop.op = "Query" /\ cop.hit) =>
       /\ LeastTtl(cop.stored) > 0
       /\ cop.at - cop.storedAt <= LeastTtl(cop.stored) * TicksPerSecond
  /\ \A item \in backer :
       /\ LeastTtl(item.stored) > 0
       /\ item.expiration - item.time = LeastTtl(item.stored) * TicksPerSecond
  /\ (cop.op = "Store" /\ Len(cop.response.answer) > 0 /\ LeastTtl(cop.response) = 0) =>
       /\ cop.ret = FALSE
       /\ ~cop.changed

\* an entry was hit one second or more after it was stored, T has elapsed
\* since, the sweep has not run, and a Query of its key misses
C30_Witness ==
  /\ cop.op = "Query"
  /\ ~cop.hit
  /\ \E item \in backer :
       /\ item.key = CacheKey(partitionIdxMap[cop.partition], cop.request.question)
       /\ item.message /= item.stored
       /\ now - item.time > LeastTtl(item.stored) * TicksPerSecond

\* ------------------------------------------------------------------------
\* C8: Store returns false and leaves the cache contents and Size()
\* unchanged when the response is empty (IsEmptyResponse) or truncated, and
\* no Query returns an empty or a truncated message.
\* ------------------------------------------------------------------------

C8_EmptyNeverCached ==
  /\ (cop.op = "Store" /\ (IsEmptyResponse(cop.response) \/ cop.response.truncated)) =>
       /\ cop.ret = FALSE
       /\ ~cop.changed
       /\ cop.sizeAfter = cop.sizeBefore
  /\ (cop.op = "Query" /\ cop.hit) =>
       /\ ~IsEmptyResponse(cop.message)
       /\ ~cop.message.truncated

\* a truncated response that has an answer is refused while the cache holds
\* an entry under the very key
C8_Witness ==
  /\ cop.op = "Store"
  /\ cop.response.truncated
  /\ ~IsEmptyResponse(cop.response)
  /\ cop.ret = FALSE
  /\ cop.sizeBefore > 0
  /\ \E item \in backer :
       /\ item.key = CacheKey(partitionIdxMap[cop.partition], cop.request.question)
       /\ ~item.message.truncated

\* ------------------------------------------------------------------------
\* Engine: the request pipeline
\* ------------------------------------------------------------------------

\* client addresses, as the last byte of 10.0.0.x
Addresses == {1, 2, 3}

NoIp == 0

\* a match rule of a consumer: an address, a range, a subnet
ConsumerMatch(ip, range, net) == [ip |-> ip, range |-> range, net |-> net]

\* engine.consumers, in configuration order, and engine.defaultConsumer
Consumers ==
  << [name |-> "kids", matches |-> <<ConsumerMatch(1, <<>>, {})>>,
      lists |-> {"l1", "l2"}, resolverNames |-> <<"A", "B">>],
     [name |-> "lan", matches |-> <<ConsumerMatch(NoIp, <<1, 2>>, {})>>,
      lists |-> {"l2"}, resolverNames |-> <<>>] >>

defaultConsumer ==
  [name |-> "default", matches |-> <<>>, lists |-> {"l2"}, resolverNames |-> <<>>]

\* the tests of one match rule in getConsumerForIp
MatchesIp(match, ip) ==
  \/ match.ip /= NoIp /\ match.ip = ip
  \/ match.range /= <<>> /\ ip >= match.range[1] /\ ip <= match.range[2]
  \/ ip \in match.net

\* engine.getConsumerForIp: the first consumer one of whose match rules
\* matches, else the default consumer
getConsumerForIp(ip) ==
  LET found == {i \in 1..Len(Consumers) :
                  \E j \in 1..Len(Consumers[i].matches) : MatchesIp(Consumers[i].matches[j], ip)}
  IN IF found = {}
     THEN defaultConsumer
     ELSE Consumers[CHOOSE i \in found : \A k \in found : i <= k]

\* engine.getResolvers
getResolvers(consumer) ==
  IF Len(consumer.resolverNames) > 0 THEN consumer.resolverNames ELSE <<"default">>

\* the lists and rules the engine's store was built from
EngineListType == [l \in ListNames |-> IF l = "l1" THEN "allow" ELSE "block"]

EngineRows == {<<"l1", <<"b", "a">>>>, <<"l2", <<"a">>>>, <<"l2", <<"b", "a">>>>}

\* a domain name ending in "." has the empty label last
Fqdn(domain) == Append(domain, "")

EmptyName == <<>>

LongName == <<"long">>

\* len(name): the labels are one character long, LongName's is 256
NameLength(name) ==
  IF name = EmptyName THEN 0
  ELSE IF name = LongName THEN 256
  ELSE 2 * Len(name) - 2 + (IF name[Len(name)] = "" THEN 0 ELSE 1)

notImplemented == {"None", "NULL", "IXFR", "AXFR"}

NilRequest == [nil |-> TRUE]

NilMsg == [nil |-> TRUE]

NilResult == [nil |-> TRUE]

EngineRequest(name, qtype) ==
  [id |-> 1, question |-> <<[name |-> name, qtype |-> qtype, qclass |-> "IN"]>>]

\* the names asked for: one under each rule, one under none
EngineNames == {<<"a">>, <<"b", "a">>, <<"b", "b">>}

EngineRequests ==
  {EngineRequest(Fqdn(d), t) : d \in EngineNames, t \in {"A", "CNAME"}}
    \cup {EngineRequest(n, "A") : n \in {EmptyName, LongName}}
    \cup {EngineRequest(Fqdn(<<"a">>), t) : t \in notImplemented}
    \cup {[id |-> 1, question |-> <<>>], NilRequest}

\* new(dns.Msg)
NewMsg == [id |-> 0, response |-> FALSE, rcode |-> "Success", question |-> <<>>, answer |-> <<>>]

\* dns.Msg.SetReply
SetReply(msg, request) ==
  [msg EXCEPT !.id = request.id,
              !.response = TRUE,
              !.rcode = "Success",
              !.question = IF Len(request.question) > 0 THEN <<request.question[1]>> ELSE @]

SetRcode(msg, rcode) == [msg EXCEPT !.rcode = rcode]

\* &resolver.ResolutionResult{}
NewResult ==
  [consumer |-> "", blocked |-> FALSE, match |-> "none", list |-> NoList,
   rule |-> <<>>, resolver |-> "", message |-> ""]

\* engine.domainRuleMatchedForConsumer: every (match, list, rule) it can
\* return; a final "." is dropped from the domain
domainRuleMatchedForConsumer(consumer, domain) ==
  LET name == IF Len(domain) > 0 /\ domain[Len(domain)] = ""
              THEN SubSeq(domain, 1, Len(domain) - 1) ELSE domain
  IN FindMatchResults(phase /= "new", listType, lists, rules, consumer.lists, name)

\* the names a CNAME record of the resolvers points to
CnameTargets == {Fqdn(<<"a">>), Fqdn(<<"b", "a">>)}

CNAME(name, target) ==
  [name |-> name, rrtype |-> "CNAME", ttl |-> 1, data |-> "cname", target |-> target]

\* util.IsEmptyResponse, of a message that may be nil
IsEmptyOrNil(msg) == IF msg = NilMsg THEN TRUE ELSE IsEmptyResponse(msg)

\* ResolverMap.AnswerMultiResolvers: every (response, result, err) it can
\* return for the request; the result names the resolver that answered.
\* A source may also panic (a nil dereference): then nothing is returned.
AnswerMultiResolvers(resolverNames, request) ==
  LET q == request.question[1]
      reply == SetReply(NewMsg, request)
      by == [NewResult EXCEPT !.resolver = resolverNames[1]]
  IN {[response |-> NilMsg, result |-> NilResult, err |-> TRUE, panic |-> FALSE],
      [response |-> NilMsg, result |-> NilResult, err |-> FALSE, panic |-> TRUE],
      [response |-> NilMsg, result |-> by, err |-> FALSE, panic |-> FALSE],
      [response |-> reply, result |-> by, err |-> FALSE, panic |-> FALSE],
      [response |-> [reply EXCEPT !.answer = <<RR(q.name, "A", 1, "10.0.0.1")>>],
       result |-> by, err |-> FALSE, panic |-> FALSE]}
     \cup {[response |-> [reply EXCEPT !.answer = <<CNAME(q.name, t)>>],
            result |-> by, err |-> FALSE, panic |-> FALSE] : t \in CnameTargets}

\* what performRequest hands back: it did not return (a panic unwinds the
\* goroutine: cause "request" for SetReply of a nil request, "resolve" for
\* a panic of a source; or the stack ran out: cause "stack"), or a response
\* and a result; calls counts the calls of AnswerMultiResolvers, chased
\* says that the response is the one of a CNAME's target
Died(cause) ==
  [died |-> TRUE, cause |-> cause, response |-> NilMsg, result |-> NilResult,
   calls |-> 0, chased |-> FALSE]

Returned(response, result, calls) ==
  [died |-> FALSE, cause |-> "none", response |-> response, result |-> result,
   calls |-> calls, chased |-> FALSE]

\* the match and its list are recorded, the rule text is not
RecordMatch_NoRule(result, m) ==
  IF m.match /= "none"
  THEN [result EXCEPT !.match = m.match, !.list = m.list]
  ELSE result

\* the match is recorded on the result
RecordMatch(result, m) ==
  IF m.match /= "none"
  THEN [result EXCEPT !.match = m.match, !.list = m.list, !.rule = m.rule]
  ELSE result

\* an empty response becomes a reply to the request, its RCODE left as
\* SetReply sets it
NormalizeEmpty_ReplyOnly(response, request) ==
  IF IsEmptyResponse(response)
  THEN SetReply(response, request)
  ELSE response

\* an empty response gets RCODE NameError and is left as it is otherwise
NormalizeEmpty_RcodeOnly(response, request) ==
  IF IsEmptyResponse(response)
  THEN SetRcode(response, "NameError")
  ELSE response

\* "set codes for response/reply": an empty response becomes a reply to
\* the request with RCODE NameError
NormalizeEmpty(response, request) ==
  IF IsEmptyResponse(response)
  THEN SetRcode(SetReply(response, request), "NameError")
  ELSE response

\* the end of performRequest: a response is made when there is none, an
\* empty one is normalized, recover() finds no panic (it is not called by
\* a deferred function), the result is made when there is none and gets
\* the consumer's name
Finish(request, response, result, consumer, calls) ==
  LET made == IF response = NilMsg THEN NewMsg ELSE response
      res == IF result = NilResult THEN NewResult ELSE result
  IN Returned(NormalizeEmpty(made, request), [res EXCEPT !.consumer = consumer.name], calls)

RECURSIVE performRequest(_, _, _)
RECURSIVE handleCnameResolution(_, _, _, _)

\* the response for the target of a CNAME, without the renaming and
\* without SetReply
CnameReply_AsReceived(response, originalRequest) == response

\* the response for the target of a CNAME becomes the response to the
\* original request: every answer gets the name asked for, and SetReply
\* gives it the id and the question of the original request
CnameReply(response, originalRequest) ==
  SetReply([response EXCEPT !.answer =
              [i \in 1..Len(response.answer) |->
                 [response.answer[i] EXCEPT !.name = originalRequest.question[1].name]]],
           originalRequest)

\* engine.handleCnameResolution: every outcome. When the first answer is a
\* CNAME and the question is not for one, the request is made again for
\* the target, by performRequest; a response that is not empty is used,
\* with the answers renamed and as a reply to the original request.
\* chain holds the (name, target) pairs followed so far: nothing in the
\* code keeps them, and when the resolvers give for a name the CNAME they
\* gave for it before, the requests repeat until the stack runs out.
handleCnameResolution(address, originalRequest, originalResponse, chain) ==
  IF originalResponse = NilMsg \/ originalRequest = NilRequest
  THEN {Returned(NilMsg, NilResult, 0)}
  ELSE IF Len(originalResponse.answer) < 1 \/ Len(originalRequest.question) < 1
  THEN {Returned(NilMsg, NilResult, 0)}
  ELSE IF originalResponse.answer[1].rrtype = "CNAME"
            /\ originalRequest.question[1].qtype /= "CNAME"
  THEN LET newName == originalResponse.answer[1].target
           cnameRequest == [originalRequest EXCEPT !.question[1].name = newName]
           link == <<originalRequest.question[1].name, newName>>
       IN IF link \in SeqRange(chain)
          THEN {Died("stack")}
          ELSE {IF sub.died
                THEN sub
                ELSE IF ~IsEmptyOrNil(sub.response)
                THEN Returned(CnameReply(sub.response, originalRequest), NilResult, sub.calls)
                ELSE Returned(NilMsg, NilResult, sub.calls)
                : sub \in performRequest(address, cnameRequest, Append(chain, link))}
  ELSE {Returned(NilMsg, NilResult, 0)}

\* "drop questions for domain names that could be malicious", with the
\* upper limit left out
BadName_EmptyOnly(name) == NameLength(name) < 1

\* "drop questions for domain names that could be malicious"
BadName(name) == NameLength(name) < 1 \/ NameLength(name) > 255

\* only the zone transfers are refused
IsNotImplemented_TransfersOnly(qtype) == qtype \in {"IXFR", "AXFR"}

\* "drop questions that aren't implemented"
IsNotImplemented(qtype) == qtype \in notImplemented

\* engine.performRequest: every outcome
performRequest(address, request, chain) ==
  LET consumer == getConsumerForIp(address)
      result == [NewResult EXCEPT !.consumer = consumer.name]
  IN IF request = NilRequest
     THEN {Died("request")}
     ELSE IF Len(request.question) < 1
     THEN {Returned(SetRcode(SetReply(NewMsg, request), "Refused"), result, 0)}
     ELSE IF BadName(request.question[1].name)
     THEN {Returned(SetRcode(SetReply(NewMsg, request), "BadName"), result, 0)}
     ELSE IF IsNotImplemented(request.question[1].qtype)
     THEN {Returned(SetRcode(SetReply(NewMsg, request), "NotImplemented"), result, 0)}
     ELSE IF blockFlag[consumer.name]
     THEN {Finish(request, SetReply(SetRcode(NewMsg, "Refused"), request),
                  [result EXCEPT !.blocked = TRUE], consumer, 0)}
     ELSE UNION {
            IF m.match = "block"
            THEN {Finish(request, NilMsg, RecordMatch(result, m), consumer, 0)}
            ELSE UNION {
                   IF a.panic
                   THEN {Died("resolve")}
                   ELSE IF a.err
                   THEN {Finish(request, a.response, a.result, consumer, 1)}
                   ELSE {IF c.died
                         THEN c
                         ELSE IF ~IsEmptyOrNil(c.response)
                         THEN [Finish(request, c.response, a.result, consumer, 1 + c.calls)
                                 EXCEPT !.chased = TRUE]
                         ELSE Finish(request, a.response, a.result, consumer, 1 + c.calls)
                         : c \in handleCnameResolution(address, request, a.response, chain)}
                   : a \in AnswerMultiResolvers(getResolvers(consumer), request)}
            : m \in domainRuleMatchedForConsumer(consumer, request.question[1].name)}

\* recorder.queue: the entry is queued when the queue has room, dropped
\* otherwise
queue(len) == IF len < QueueCap THEN len + 1 ELSE len

\* engine.Handle: performRequest, then the recorder's queue
Handle(address, request) ==
  /\ engineUp
  /\ phase = "final"
  /\ \E r \in performRequest(address, request, <<>>) :
       /\ eop' = [op |-> "Handle", address |-> address, request |-> request,
                  died |-> r.died, cause |-> r.cause, chased |-> r.chased,
                  response |-> r.response, result |-> r.result,
                  calls |-> r.calls]
       /\ engineUp' = ~r.died
       /\ queueLen' = IF r.died THEN queueLen ELSE queue(queueLen)
  /\ UNCHANGED blockFlag
  /\ UNCHANGED <<ruleVars, cacheVars, resVars, dnsVars, metricsVars, laterVars>>

\* the recorder's worker takes an entry off the queue
RecorderTakes ==
  /\ engineUp
  /\ queueLen > 0
  /\ queueLen' = queueLen - 1
  /\ UNCHANGED <<blockFlag, engineUp, eop>>
  /\ UNCHANGED <<ruleVars, cacheVars, resVars, dnsVars, metricsVars, laterVars>>

\* the engine is built: its store is loaded and final, at most one
\* consumer has the block flag
InitEngine ==
  /\ listType = EngineListType
  /\ phase = "final"
  /\ lists = ListNames
  /\ rules \in SUBSET EngineRows
  /\ loaded = rules
  /\ rules_initial = {}
  /\ txOpen = FALSE
  /\ txRows = {}
  /\ fm = NoCall
  /\ blockFlag \in {f \in [ConsumerNames -> BOOLEAN] : Cardinality({c \in ConsumerNames : f[c]}) <= 1}
  /\ queueLen = 0
  /\ engineUp = TRUE
  /\ eop = NoCall
  /\ IdleCache
  /\ IdleResolvers
  /\ IdleDns
  /\ IdleMetrics
  /\ IdleLater

NextEngine ==
  \/ \E address \in Addresses, request \in EngineRequests : Handle(address, request)
  \/ RecorderTakes

SpecEngine == InitEngine /\ [][NextEngine]_vars

\* ------------------------------------------------------------------------
\* engine.getConsumerForIp over configurations
\* ------------------------------------------------------------------------
\* A client address comes from the network in its 4-byte or its 16-byte
\* form; net.ParseIP gives the 16-byte form of a text, or nil. A subnet is
\* the set of the addresses it contains.

ConsumerOthers == <<ruleVars, cacheVars, resVars, engineVars, dnsVars, metricsVars, shutVars,
                    counterVars, streamVars, emptyVars, textVars, lockVars, failVars, lastVars>>

\* a text that is not an address
BadText == 9

NilIp == [len |-> 0, n |-> 0]

\* net.ParseIP
ParseIP(text) == IF text \in Addresses THEN [len |-> 16, n |-> text] ELSE NilIp

\* the addresses a client can have
ClientIps == [len : {4, 16}, n : Addresses]

\* the address as it came
To16_AsIs(ip) == ip

\* IP.To16
To16(ip) == IF ip = NilIp THEN NilIp ELSE [len |-> 16, n |-> ip.n]

\* bytes.Compare: a 4-byte address is above every 16-byte form of a 4-byte
\* address, whose first byte is 0
Compare(a, b) ==
  IF a.len = b.len
  THEN (IF a.n < b.n THEN -1 ELSE IF a.n > b.n THEN 1 ELSE 0)
  ELSE IF a.len < b.len THEN 1 ELSE -1

\* config.GudgeonMatch
GudgeonMatch(ip, range, net) == [IP |-> ip, Range |-> range, Net |-> net]

\* the match lists a configured consumer can have
MatchLists ==
  { <<>>,
    <<GudgeonMatch(1, <<>>, {})>>,
    <<GudgeonMatch(NoIp, <<1, 2>>, {})>>,
    <<GudgeonMatch(NoIp, <<>>, {2, 3})>>,
    <<GudgeonMatch(BadText, <<3, 1>>, {})>>,
    <<GudgeonMatch(3, <<1, 1>>, {})>>,
    <<GudgeonMatch(2, <<>>, {}), GudgeonMatch(NoIp, <<BadText, 3>>, {3})>> }

ConsumerIds == <<"c1", "c2", "c3", "c4">>

Configurations == UNION {[1..n -> MatchLists] : n \in 0..MaxConsumers}

\* the three tests of one match rule
matchFound(match, consumerIp) ==
  LET matchIp == ParseIP(match.IP)
      byIp == /\ match.IP /= NoIp
              /\ matchIp /= NilIp
              /\ Compare(To16(matchIp), To16(consumerIp)) = 0
      byRange == /\ match.Range /= <<>>
                 /\ LET startIp == ParseIP(match.Range[1])
                        endIp == ParseIP(match.Range[2])
                    IN  /\ startIp /= NilIp
                        /\ endIp /= NilIp
                        /\ Compare(To16(consumerIp), To16(startIp)) >= 0
                        /\ Compare(To16(consumerIp), To16(endIp)) <= 0
      byNet == consumerIp.n \in match.Net
  IN  byIp \/ byRange \/ byNet

\* for _, match := range activeConsumer.configConsumer.Matches
RECURSIVE scanMatches(_, _, _)
scanMatches(matches, j, consumerIp) ==
  IF j > Len(matches) THEN FALSE
  ELSE IF matchFound(matches[j], consumerIp) THEN TRUE
  ELSE scanMatches(matches, j + 1, consumerIp)

\* for _, activeConsumer := range engine.consumers, and the default
\* consumer when none is found
RECURSIVE scanConsumers(_, _, _)
scanConsumers(consumers, i, consumerIp) ==
  IF i > Len(consumers) THEN "default"
  ELSE IF scanMatches(consumers[i], 1, consumerIp) THEN ConsumerIds[i]
  ELSE scanConsumers(consumers, i + 1, consumerIp)

\* engine.getConsumerForIp is called
LooksUp(consumerIp) ==
  /\ lookedUp' = consumerIp
  /\ selected' = scanConsumers(configured, 1, consumerIp)
  /\ UNCHANGED configured
  /\ UNCHANGED ConsumerOthers

InitConsumers ==
  /\ configured \in Configurations
  /\ lookedUp = NilIp
  /\ selected = "none"
  /\ IdleEmpty
  /\ IdleText
  /\ IdleLock
  /\ IdleStream
  /\ IdleCounters
  /\ IdleShutdown
  /\ IdleMetrics
  /\ IdleDns
  /\ listType = [l \in ListNames |-> "block"]
  /\ NewStore
  /\ IdleCache
  /\ IdleResolvers
  /\ IdleEngine
  /\ IdleFail
  /\ IdleLast

NextConsumers == \E consumerIp \in ClientIps : LooksUp(consumerIp)

SpecConsumers == InitConsumers /\ [][NextConsumers]_vars

\* the rule matches the address: the same address, an address of the
\* range, an address of the subnet
RuleMatches(match, a) ==
  \/ match.IP \in Addresses /\ match.IP = a
  \/ /\ match.Range /= <<>>
     /\ match.Range[1] \in Addresses
     /\ match.Range[2] \in Addresses
     /\ match.Range[1] <= a
     /\ a <= match.Range[2]
  \/ a \in match.Net

\* the configured consumers with a rule that matches the address
Matching(a) ==
  {i \in 1..Len(configured) :
     \E j \in 1..Len(configured[i]) : RuleMatches(configured[i][j], a)}

\* C24: the consumer selected for a client address is the first one in
\* configuration order with a match rule that matches the address, and the
\* default consumer iff no configured consumer matches.
C24_FirstMatchWins ==
  selected /= "none" =>
    /\ (selected = "default") = (Matching(lookedUp.n) = {})
    /\ selected /= "default" =>
         \E i \in Matching(lookedUp.n) :
           /\ selected = ConsumerIds[i]
           /\ \A k \in Matching(lookedUp.n) : i <= k

\* a client in the 4-byte form that two consumers match, the first by its
\* address and the second by its range
C24_Witness ==
  /\ lookedUp = [len |-> 4, n |-> 1]
  /\ selected = "c1"
  /\ Len(configured) = 2
  /\ configured[1] = <<GudgeonMatch(1, <<>>, {})>>
  /\ configured[2] = <<GudgeonMatch(NoIp, <<1, 2>>, {})>>

\* ------------------------------------------------------------------------
\* The request pipeline
\* ------------------------------------------------------------------------

\* the request passes validation
Validated(request) ==
  /\ request /= NilRequest
  /\ Len(request.question) >= 1
  /\ NameLength(request.question[1].name) \in 1..255
  /\ request.question[1].qtype \notin notImplemented

\* Handle has returned a response to a validated request
Handled == eop.op = "Handle" /\ ~eop.died /\ Validated(eop.request)

HandledConsumer == getConsumerForIp(eop.address)

\* what the rule store says of the name asked for, over the lists of the
\* consumer
HandledMatch ==
  {m.match : m \in domainRuleMatchedForConsumer(HandledConsumer, eop.request.question[1].name)}

\* Handle has answered a request of a consumer without the block flag
\* whose rule match is v
HandledWithMatch(v) ==
  /\ Handled
  /\ ~blockFlag[HandledConsumer.name]
  /\ HandledMatch = {v}

\* C35: for a validated request of a consumer that is not blocked and whose
\* lists give no block match, the resolvers are asked, and when the
\* response Handle returns is empty (the resolvers gave none, an empty one
\* or an error) it is a reply to the request, with its id and question, and
\* has RCODE NameError.
C35_EmptyIsNameError ==
  (Handled /\ ~blockFlag[HandledConsumer.name] /\ "block" \notin HandledMatch) =>
    /\ eop.calls >= 1
    /\ IsEmptyResponse(eop.response) =>
         /\ eop.response.rcode = "NameError"
         /\ eop.response.response
         /\ eop.response.id = eop.request.id
         /\ eop.response.question = eop.request.question

\* the resolvers of the consumer have returned neither response nor result
\* (an error) for a name under no rule, and Handle has answered NameError
C35_Witness ==
  /\ Handled
  /\ ~blockFlag[HandledConsumer.name]
  /\ HandledMatch = {"none"}
  /\ eop.calls = 1
  /\ eop.result.resolver = ""
  /\ IsEmptyResponse(eop.response)
  /\ eop.response.rcode = "NameError"

\* C2: a validated request of a client whose consumer has block=true is
\* answered with RCODE Refused, whatever the store and the resolvers hold.
C2_BlockedConsumerRefused ==
  (Handled /\ blockFlag[HandledConsumer.name]) => eop.response.rcode = "Refused"

C4_BlockMatchRecorded ==
  HandledWithMatch("block") =>
    /\ eop.result.match = "block"
    /\ eop.result.list \in HandledConsumer.lists
    /\ ParseType(listType[eop.result.list]) = "BLOCK"
    /\ <<eop.result.list, eop.result.rule>> \in rules
    /\ Fqdn(eop.result.rule) \in Suffixes(eop.request.question[1].name)
    /\ eop.calls = 0

\* a block match by a rule for a parent domain of the name asked for
C4_Witness ==
  /\ HandledWithMatch("block")
  /\ eop.result.rule = <<"a">>
  /\ eop.request.question[1].name = Fqdn(<<"b", "a">>)

\* C12: a panic raised while Handle resolves (or chases a CNAME) is caught
\* inside Handle: Handle returns, the response has RCODE ServFail and the
\* recovery value is in result.Message.
C12_PanicRecovered ==
  (eop.op = "Handle" /\ eop.cause = "resolve") =>
    /\ ~eop.died
    /\ eop.response.rcode = "ServerFailure"
    /\ eop.result.message /= ""

\* C13: Handle called with no request, or with a request without a
\* question, returns a response with RCODE Refused, and asks neither the
\* rule store nor a resolver.
C13_NoQuestionRefused ==
  (eop.op = "Handle" /\ (eop.request = NilRequest \/ eop.request.question = <<>>)) =>
    /\ ~eop.died
    /\ eop.response.rcode = "Refused"
    /\ eop.result.match = "none"
    /\ eop.calls = 0

\* Handle has been called with a request that has a question
Asked == eop.op = "Handle" /\ eop.request /= NilRequest /\ eop.request.question /= <<>>

\* C14: a request whose first question has a name of length 0 or of
\* length over 255 is answered with RCODE BadName, whatever the consumer,
\* its block flag, the rule store and the resolvers.
C14_BadName ==
  (Asked /\ NameLength(eop.request.question[1].name) \notin 1..255) =>
    /\ ~eop.died
    /\ eop.response.rcode = "BadName"

\* a name of more than 255 characters, asked by a client of a consumer
\* with the block flag
C14_Witness ==
  /\ Asked
  /\ NameLength(eop.request.question[1].name) > 255
  /\ blockFlag[HandledConsumer.name]
  /\ ~eop.died

\* C15: a request with a valid name for one of the types None, NULL, IXFR,
\* AXFR is answered with RCODE NotImplemented for every consumer, blocked
\* or not, block-matched or not, and no resolver is asked.
C15_NotImplemented ==
  (/\ Asked
   /\ NameLength(eop.request.question[1].name) \in 1..255
   /\ eop.request.question[1].qtype \in {"None", "NULL", "IXFR", "AXFR"}) =>
    /\ ~eop.died
    /\ eop.response.rcode = "NotImplemented"
    /\ eop.calls = 0

\* a NULL question for a block-matched name
C15_Witness ==
  /\ Asked
  /\ eop.request.question[1].qtype = "NULL"
  /\ ~blockFlag[HandledConsumer.name]
  /\ HandledMatch = {"block"}
  /\ ~eop.died

\* C16: when the response of the target of a CNAME is used, every answer
\* of the response Handle returns has the name of the original question,
\* and the response has the original question and the id of the request.
C16_CnameRenamed ==
  (Handled /\ eop.chased) =>
    /\ \A i \in 1..Len(eop.response.answer) :
         eop.response.answer[i].name = eop.request.question[1].name
    /\ eop.response.question = <<eop.request.question[1]>>
    /\ eop.response.id = eop.request.id

\* the name asked for is a CNAME of another name, whose address is
\* returned
C16_Witness ==
  /\ Handled
  /\ eop.chased
  /\ eop.calls = 2
  /\ eop.request.question[1].name = Fqdn(<<"b", "b">>)
  /\ eop.response.answer = <<RR(Fqdn(<<"b", "b">>), "A", 1, "10.0.0.1")>>

\* C17: Handle terminates for every request and every data of the
\* resolvers, CNAME cycles included: the stack never runs out.
C17_ChaseTerminates ==
  eop.op = "Handle" => eop.cause /= "stack"

\* C5: an allow match is resolved through the resolvers of the consumer,
\* and the result returned after resolution carries match=allow with the
\* list and the rule that matched.
C5_AllowMatchRecorded ==
  HandledWithMatch("allow") =>
    /\ eop.calls >= 1
    /\ eop.result.match = "allow"
    /\ <<eop.result.list, eop.result.rule>> \in rules

\* ------------------------------------------------------------------------
\* The resolver graph
\* ------------------------------------------------------------------------

NoRepeat(s) == \A i, j \in 1..Len(s) : s[i] = s[j] => i = j

\* A and B name each other as their only source
MutualReferences ==
  resolvers = [n \in ResolverNames |-> IF n = "A" THEN <<Ref("B")>> ELSE <<Ref("A")>>]

\* C9: during one request each resolver name is entered at most once:
\* Visited never holds the same name twice and no resolver is run twice,
\* whatever the configuration, reference cycles included.
C9_EnteredOnce ==
  /\ NoRepeat(Visited)
  /\ NoRepeat(entered)
  /\ \A i \in 1..Len(stack), j \in 1..Len(stack) : stack[i].name = stack[j].name => i = j

\* a request over a reference cycle is done: both resolvers ran, and the
\* reference that closes the cycle was refused
C9_Witness ==
  /\ rpc = "done"
  /\ guarded
  /\ Len(entered) = 2
  /\ \E n \in ResolverNames : \E i \in 1..Len(resolvers[n]) : resolvers[n][i] = Ref(n)
                                                           \/ MutualReferences

\* C10: a resolution, once started, terminates for every configuration
\* (mutual and self references included) without exhausting the stack, and
\* when no hostfile or remote source has answered, its outcome is an empty
\* response.
C10_Terminates ==
  /\ (rpc = "running") ~> (rpc = "done")
  /\ [](rpc /= "overflow" /\ Len(stack) <= Cardinality(ResolverNames))
  /\ []((rpc = "done" /\ ~answered) => IsEmpty(outcome))

\* A's only source is B, B's only source is A, the start resolver is A: the
\* request is done and its outcome is empty
C10_Witness ==
  /\ MutualReferences
  /\ names = <<"A">>
  /\ rpc = "done"
  /\ Visited = <<"A", "B">>
  /\ IsEmpty(outcome)

\* the resolver on top of the stack is about to ask a source that names a
\* resolver which is not in Visited
AsksNewReference ==
  /\ rpc = "running"
  /\ stack /= <<>>
  /\ ret = NoRet
  /\ Top.idx <= Len(resolvers[Top.name])
  /\ resolvers[Top.name][Top.idx].kind = "resolver"
  /\ ~StringIn(resolvers[Top.name][Top.idx].name, Visited)

Referenced == resolvers[Top.name][Top.idx].name

\* the resolver's hostfile has the name asked for
CanAnswer(name) ==
  hostKnows /\ \E i \in 1..Len(resolvers[name]) : resolvers[name][i] = HostFile

Occurrences(name, s) == Cardinality({i \in 1..Len(s) : s[i] = name})

\* C34: when a source names a resolver that is not in Visited, the name is
\* appended to Visited, where it is then exactly once, and the resolver is
\* run (or its cached response taken); the response that resolver returns
\* is what the source returns to the resolver that asked, and it is not
\* empty when the referenced resolver has a hostfile with the name.
C34_ReferenceDelegates ==
  /\ [][(AsksNewReference /\ <<stack, ret, Visited>>' /= <<stack, ret, Visited>>) =>
          /\ Visited' = Append(Visited, Referenced)
          /\ Occurrences(Referenced, Visited') = 1
          /\ IF Referenced \in cached
             THEN ret' = "cached" /\ stack' = stack
             ELSE /\ ret' = NoRet
                  /\ stack' = Append(stack, [name |-> Referenced, idx |-> 1])]_vars
  /\ [][(Len(stack) >= 2 /\ stack' = Pop) =>
          /\ ret' /= NoRet
          /\ Occurrences(Top.name, Visited') = 1
          /\ CanAnswer(Top.name) => ~IsEmpty(ret')]_vars
  /\ [](\A i \in 1..Len(stack) : Occurrences(stack[i].name, Visited) = 1)

\* A has B as its only source, B has the hostfile, which has the name: the
\* request to A is done with the response of B's hostfile
C34_Witness ==
  /\ resolvers["A"] = <<Ref("B")>>
  /\ resolvers["B"] = <<HostFile>>
  /\ hostKnows
  /\ names = <<"A">>
  /\ rpc = "done"
  /\ entered = <<"A", "B">>
  /\ Visited = <<"A", "B">>
  /\ outcome = "host"

====
